---------------------------- MODULE Spec2Model ----------------------------
(***************************************************************************)
(* A model of botok-rs: character classification, the chunker, the         *)
(* dictionary trie, the longest-match tokenizer and the token modifiers.   *)
(*                                                                         *)
(* Strings are sequences of characters; a character is named by a short    *)
(* ASCII string.  Byte offsets are UTF-8 offsets, computed from Utf8Len.   *)
(* Option<T> is a sequence of length 0 (None) or 1 (Some(x)).              *)
(***************************************************************************)
EXTENDS Integers, Sequences, FiniteSets, TLC

\* ------------------------------------------------------------ bounds

\* Longest text (in characters) given to Chunker::make_chunks.
MaxChunkText == 4

\* Number of trie operations in one behaviour.
MaxTrieOps == 3

\* Longest list of senses one word gets.
MaxSenses == 2

\* Number of pieces (characters or whole syllables) in a text given to the
\* tokenizer.
MaxUnits == 3

\* Longest token list given to a modifier called on its own.
MaxTokens == 4

\* ------------------------------------------------------------ options

None == <<>>
Some(x) == <<x>>
IsSome(o) == Len(o) = 1
Unwrap(o) == o[1]

\* ------------------------------------------------------------ characters

\* The characters of the model and the code points they stand for:
\*   k  U+0F40 KA      b  U+0F56 BA      s  U+0F66 SA     p  U+0F54 PA
\*   o  U+0F7C vowel O
\*   T  U+0F0B tsek    /  U+0F0D shad    1  U+0F21 digit  %  a Tibetan symbol
\*   sp U+0020 space   tab U+0009        a  U+0061        K  U+004B
\*   C  U+5C31 (CJK)   kelvin U+212A KELVIN SIGN          emoji U+1F600
\*   nbsp U+00A0 NO-BREAK SPACE         ogham U+1680 OGHAM SPACE MARK
\*   ideo U+3000 IDEOGRAPHIC SPACE
TSEK == "T"

\* char::len_utf8
Utf8Len(c) ==
    CASE c \in {"sp", "tab", "a", "K"} -> 1
      [] c = "nbsp" -> 2
      [] c = "emoji" -> 4
      [] OTHER -> 3

\* char_categories::TRANSPARENT_CHARS, the entries that are characters of the
\* model.
TRANSPARENT_CHARS == {"sp", "tab", "nbsp", "ogham", "ideo"}

\* The rows of data/bo_uni_table.csv for the Tibetan-block characters of the
\* model (the categories the unit tests of char_categories.rs assert).
CHAR_MAP(c) ==
    CASE c \in {"k", "b", "s", "p"} -> "Cons"
      [] c = "o" -> "Vow"
      [] c = "T" -> "Tsek"
      [] c = "/" -> "NormalPunct"
      [] c = "1" -> "Numeral"
      [] c = "%" -> "Symbol"
      [] OTHER -> "Other"

TibetanBlock == {"k", "b", "s", "p", "o", "T", "/", "1", "%"}
LatinRange == {"sp", "a", "K", "nbsp"}
CjkRange == {"C", "ideo"}

get_char_category(c) ==
    IF c \in TRANSPARENT_CHARS THEN "Transparent"
    ELSE IF c \in TibetanBlock THEN CHAR_MAP(c)
    ELSE IF c \in LatinRange THEN "Latin"
    ELSE IF c \in CjkRange THEN "Cjk"
    ELSE "Other"

is_syllable_part(cat) ==
    cat \in {"Cons", "SubCons", "Vow", "SkrtVow", "SkrtCons", "SkrtSubCons",
             "SkrtLongVow", "InSylMark", "Nfc", "NonBoNonSkrt"}

\* BoString::new: the categories, parallel to the characters.
BoString(s) == [i \in 1..Len(s) |-> get_char_category(s[i])]

\* ------------------------------------------------------------ strings

RECURSIVE ByteLen(_)
\* str::len: the length in bytes.
ByteLen(s) == IF s = <<>> THEN 0 ELSE Utf8Len(Head(s)) + ByteLen(Tail(s))

\* byte_positions of make_chunks: entry i (0-based) is the byte offset of
\* character i; the last entry is the end position.
BytePositions(chars) == [i \in 0..Len(chars) |-> ByteLen(SubSeq(chars, 1, i))]

RECURSIVE JoinSyls(_, _)
\* [String]::join(sep)
JoinSyls(syls, sep) ==
    IF syls = <<>> THEN <<>>
    ELSE IF Len(syls) = 1 THEN Head(syls)
    ELSE Head(syls) \o sep \o JoinSyls(Tail(syls), sep)

RECURSIVE Concat(_)
Concat(ss) == IF ss = <<>> THEN <<>> ELSE Head(ss) \o Concat(Tail(ss))

\* &s[from..to] by byte offsets.  Rust panics when an offset is out of range
\* or not on a character boundary: the model returns None then, Some(slice)
\* otherwise.
ByteSlice(s, from, to) ==
    LET bp == BytePositions(s)
        B == {bp[i] : i \in 0..Len(s)}
    IN IF from \in B /\ to \in B /\ from <= to
       THEN LET a == CHOOSE i \in 0..Len(s) : bp[i] = from
                z == CHOOSE i \in 0..Len(s) : bp[i] = to
            IN Some(SubSeq(s, a + 1, z))
       ELSE None

\* ------------------------------------------------------------ chunker

Chunk(syl, chunk_type, start, len) ==
    [syl |-> syl, chunk_type |-> chunk_type, start |-> start, len |-> len]

RECURSIVE read_syllable_loop(_, _, _, _)
\* The while loop of read_syllable: <<i, syl_chars>> when it ends.
read_syllable_loop(chars, cats, i, syl_chars) ==
    IF i >= Len(chars) THEN <<i, syl_chars>>
    ELSE LET cat == cats[i + 1] IN
         IF cat \in {"Cons", "SubCons", "Vow", "SkrtCons", "SkrtSubCons", "SkrtVow",
                     "SkrtLongVow", "InSylMark", "Nfc", "NonBoNonSkrt"}
         THEN read_syllable_loop(chars, cats, i + 1, Append(syl_chars, chars[i + 1]))
         ELSE IF cat = "Tsek" THEN <<i + 1, syl_chars>>
         ELSE IF cat = "Transparent"
         THEN IF i + 1 < Len(chars) /\ is_syllable_part(cats[i + 2])
              THEN read_syllable_loop(chars, cats, i + 1, syl_chars)
              ELSE <<i + 1, syl_chars>>
         ELSE <<i, syl_chars>>

\* Chunker::read_syllable: <<chunk, next_i>>.
read_syllable(chars, cats, bp, start_i) ==
    LET r == read_syllable_loop(chars, cats, start_i, <<>>)
        i == r[1]
        syl == IF r[2] = <<>> THEN None ELSE Some(r[2])
    IN <<Chunk(syl, "Text", bp[start_i], bp[i] - bp[start_i]), i>>

RECURSIVE read_run_loop(_, _, _)
\* The while loop shared by read_punct, read_numbers, read_symbols,
\* read_latin and read_cjk: advance over the categories of `over`.
read_run_loop(cats, i, over) ==
    IF i < Len(cats) /\ cats[i + 1] \in over
    THEN read_run_loop(cats, i + 1, over)
    ELSE i

read_run(cats, bp, start_i, over, chunk_type) ==
    LET i == read_run_loop(cats, start_i, over)
    IN <<Chunk(None, chunk_type, bp[start_i], bp[i] - bp[start_i]), i>>

read_punct(cats, bp, start_i) ==
    read_run(cats, bp, start_i, {"NormalPunct", "SpecialPunct", "Transparent"}, "Punct")
read_numbers(cats, bp, start_i) ==
    read_run(cats, bp, start_i, {"Numeral", "Transparent"}, "Num")
read_symbols(cats, bp, start_i) ==
    read_run(cats, bp, start_i, {"Symbol", "Transparent"}, "Sym")
read_latin(cats, bp, start_i) ==
    read_run(cats, bp, start_i, {"Latin", "Transparent"}, "Latin")
read_cjk(cats, bp, start_i) ==
    read_run(cats, bp, start_i, {"Cjk", "Transparent"}, "Cjk")

\* attach_transparent with the extension forgotten: the character is skipped.
attach_transparent_skipped(chunks, c) == chunks

\* The Transparent arm of make_chunks: extend the last chunk, if there is one.
attach_transparent(chunks, c) ==
    IF chunks = <<>> THEN chunks
    ELSE [chunks EXCEPT ![Len(chunks)].len = @ + Utf8Len(c)]

\* One iteration of the while loop of make_chunks at index i: <<chunks, i>>
\* after it.
make_chunks_iteration(chars, cats, bp, i, chunks) ==
    LET cat == cats[i + 1]
        one(ty) == Chunk(None, ty, bp[i], Utf8Len(chars[i + 1]))
        read(r) == <<Append(chunks, r[1]), r[2]>>
    IN
    IF is_syllable_part(cat) THEN read(read_syllable(chars, cats, bp, i))
    ELSE IF cat = "Tsek" THEN <<Append(chunks, one("Punct")), i + 1>>
    ELSE IF cat \in {"NormalPunct", "SpecialPunct"} THEN read(read_punct(cats, bp, i))
    ELSE IF cat = "Numeral" THEN read(read_numbers(cats, bp, i))
    ELSE IF cat = "Symbol" THEN read(read_symbols(cats, bp, i))
    ELSE IF cat = "Transparent" THEN <<attach_transparent(chunks, chars[i + 1]), i + 1>>
    ELSE IF cat = "Latin" THEN read(read_latin(cats, bp, i))
    ELSE IF cat = "Cjk" THEN read(read_cjk(cats, bp, i))
    ELSE <<Append(chunks, one("Other")), i + 1>>

RECURSIVE make_chunks_loop(_, _, _, _, _)
\* The while loop of make_chunks.
make_chunks_loop(chars, cats, bp, i, chunks) ==
    IF i >= Len(chars) THEN chunks
    ELSE LET r == make_chunks_iteration(chars, cats, bp, i, chunks)
         IN make_chunks_loop(chars, cats, bp, r[2], r[1])

\* Chunker::make_chunks on the string s.
make_chunks(s) ==
    IF s = <<>> THEN <<>>
    ELSE make_chunks_loop(s, BoString(s), BytePositions(s), 0, <<>>)

\* ------------------------------------------------------------ trie

\* WordData and Sense (trie.rs:18-31, token.rs:100-113).
WordData(pos, lemma, freq, affixation, senses) ==
    [pos |-> pos, lemma |-> lemma, freq |-> freq, skrt |-> FALSE,
     affixation |-> affixation, senses |-> senses]

WordDataDefault == WordData(None, None, None, None, <<>>)

Sense(pos, freq, affixed) ==
    [pos |-> pos, lemma |-> None, freq |-> freq, sense |-> None,
     meaning |-> None, affixed |-> affixed]

\* TrieNode::new.  A trie's nodes are named by their path from the root (a
\* sequence of syllables); `root` maps every existing node to its fields,
\* and a node's children are the paths one syllable longer.
NewNode == [is_leaf |-> FALSE, data |-> None]

\* Trie::new
EmptyTrie == [root |-> (<<>> :> NewNode), word_count |-> 0]

Prefixes(syls) == {SubSeq(syls, 1, i) : i \in 0..Len(syls)}

Children(root, p) ==
    {q \in DOMAIN root : Len(q) = Len(p) + 1 /\ SubSeq(q, 1, Len(p)) = p}

\* The descent `children.entry(syl).or_insert_with(TrieNode::new)` along syls.
Ensure(root, syls) == root @@ [p \in Prefixes(syls) |-> NewNode]

RECURSIVE Descend(_, _, _)
\* The descent `children.get(syl)` along syls from node cur: the node
\* reached, or None when a child is missing.
Descend(root, cur, syls) ==
    IF syls = <<>> THEN Some(cur)
    ELSE LET nxt == Append(cur, Head(syls))
         IN IF nxt \in DOMAIN root THEN Descend(root, nxt, Tail(syls)) ELSE None

\* usize `-= 1`: -1 stands for the underflow (a panic in a debug build,
\* usize::MAX in a release build).
UsizeDec(n) == IF n = 0 THEN -1 ELSE n - 1

\* Trie::add that marks the node but forgets to store the data.
add_without_data(t, syls, data) ==
    LET r == Ensure(t.root, syls)
    IN [root |-> [r EXCEPT ![syls].is_leaf = TRUE],
        word_count |-> IF ~r[syls].is_leaf THEN t.word_count + 1 ELSE t.word_count]

\* Trie::add
add(t, syls, data) ==
    LET r == Ensure(t.root, syls)
        cur == r[syls]
    IN [root |-> [r EXCEPT ![syls] =
                    [is_leaf |-> TRUE,
                     data |-> IF IsSome(data) THEN data ELSE cur.data]],
        word_count |-> IF ~cur.is_leaf THEN t.word_count + 1 ELSE t.word_count]

RECURSIVE SplitOn(_, _, _)
\* str::split(sep): the pieces between separators (empty pieces included).
SplitOn(s, sep, piece) ==
    IF s = <<>> THEN <<piece>>
    ELSE IF Head(s) = sep THEN <<piece>> \o SplitOn(Tail(s), sep, <<>>)
    ELSE SplitOn(Tail(s), sep, Append(piece, Head(s)))

\* word.split(TSEK).filter(|s| !s.is_empty()).collect()
SplitSyls(word) == SelectSeq(SplitOn(word, TSEK, <<>>), LAMBDA x : x # <<>>)

\* Trie::add_word
add_word(t, word, data) ==
    LET syls == SplitSyls(word)
    IN IF syls # <<>> THEN add(t, syls, data) ELSE t

\* add_word_with_sense that installs the new data over the stored one.
add_word_with_sense_overwrites(t, word, data, sense) ==
    LET syls == SplitSyls(word) IN
    IF syls = <<>> THEN t
    ELSE LET r == Ensure(t.root, syls)
         IN [root |-> [r EXCEPT ![syls] =
                         [is_leaf |-> TRUE,
                          data |-> Some([data EXCEPT !.senses = Append(@, sense)])]],
             word_count |-> IF ~r[syls].is_leaf THEN t.word_count + 1 ELSE t.word_count]

\* Trie::add_word_with_sense
add_word_with_sense(t, word, data, sense) ==
    LET syls == SplitSyls(word) IN
    IF syls = <<>> THEN t
    ELSE LET r == Ensure(t.root, syls)
             cur == r[syls]
             old == Unwrap(cur.data)
             merged ==
                 [old EXCEPT
                    !.pos = IF ~IsSome(old.pos) /\ IsSome(data.pos) THEN data.pos ELSE @,
                    !.lemma = IF ~IsSome(old.lemma) /\ IsSome(data.lemma)
                              THEN data.lemma ELSE @,
                    !.freq = IF ~IsSome(old.freq) /\ IsSome(data.freq) THEN data.freq ELSE @,
                    !.senses = Append(@, sense)]
             fresh == [data EXCEPT !.senses = Append(@, sense)]
         IN [root |-> [r EXCEPT ![syls] =
                         [is_leaf |-> TRUE,
                          data |-> IF IsSome(cur.data) THEN Some(merged) ELSE Some(fresh)]],
             word_count |-> IF ~cur.is_leaf THEN t.word_count + 1 ELSE t.word_count]

\* Trie::walk: the child of `current` (None: the root) for syl, if any.
walk(t, syl, current) ==
    LET node == IF IsSome(current) THEN Unwrap(current) ELSE <<>>
    IN Descend(t.root, node, <<syl>>)

\* TrieNode::is_match of the node at path p.
is_match(t, p) == t.root[p].is_leaf

\* Trie::has_word
has_word(t, syls) ==
    LET n == Descend(t.root, <<>>, syls)
    IN IsSome(n) /\ t.root[Unwrap(n)].is_leaf

\* Trie::get_word_data
get_word_data(t, syls) ==
    LET n == Descend(t.root, <<>>, syls)
    IN IF IsSome(n) /\ t.root[Unwrap(n)].is_leaf THEN t.root[Unwrap(n)].data ELSE None

\* Trie::add_data: <<trie, returned bool>>.
add_data(t, syls, sense) ==
    LET n == Descend(t.root, <<>>, syls) IN
    IF ~IsSome(n) THEN <<t, FALSE>>
    ELSE IF ~t.root[syls].is_leaf THEN <<t, FALSE>>
    ELSE LET d == IF IsSome(t.root[syls].data) THEN Unwrap(t.root[syls].data)
                  ELSE WordDataDefault
         IN <<[t EXCEPT !.root[syls].data = Some([d EXCEPT !.senses = Append(@, sense)])],
              TRUE>>

\* Trie::deactivate that clears the flag but forgets the word count.
deactivate_without_count(t, syls) ==
    LET n == Descend(t.root, <<>>, syls) IN
    IF IsSome(n) /\ t.root[syls].is_leaf
    THEN <<[t EXCEPT !.root[syls].is_leaf = FALSE], TRUE>>
    ELSE <<t, FALSE>>

\* deactivate that drops the subtree under the word it deactivates.
deactivate_prunes(t, syls) ==
    LET n == Descend(t.root, <<>>, syls)
        kept == {p \in DOMAIN t.root :
                    ~(Len(p) > Len(syls) /\ SubSeq(p, 1, Len(syls)) = syls)}
    IN IF ~IsSome(n) THEN <<t, FALSE>>
       ELSE IF t.root[syls].is_leaf
       THEN <<[root |-> [p \in kept |->
                           IF p = syls THEN [t.root[p] EXCEPT !.is_leaf = FALSE]
                           ELSE t.root[p]],
               word_count |-> UsizeDec(t.word_count)], TRUE>>
       ELSE <<t, FALSE>>

\* Trie::deactivate: <<trie, returned bool>>.
deactivate(t, syls) ==
    LET n == Descend(t.root, <<>>, syls) IN
    IF ~IsSome(n) THEN <<t, FALSE>>
    ELSE IF t.root[syls].is_leaf
    THEN <<[root |-> [t.root EXCEPT ![syls].is_leaf = FALSE],
            word_count |-> UsizeDec(t.word_count)], TRUE>>
    ELSE <<t, FALSE>>

RECURSIVE merge_children(_, _, _)
\* The loop `for (syl, source_child) in &source.children` of
\* merge_nodes_recursive, over the children `kids` of one source node still
\* to visit: <<target nodes, added>>.
merge_children(troot, sroot, kids) ==
    IF kids = {} THEN <<troot, 0>>
    ELSE LET q == CHOOSE x \in kids : TRUE
             t1 == troot @@ (q :> NewNode)
             sc == sroot[q]
             tc == t1[q]
             newleaf == sc.is_leaf /\ ~tc.is_leaf
             t2 == [t1 EXCEPT ![q] =
                      [is_leaf |-> tc.is_leaf \/ newleaf,
                       data |-> IF sc.is_leaf /\ IsSome(sc.data) THEN sc.data
                                ELSE tc.data]]
             sub == merge_children(t2, sroot, Children(sroot, q))
             rest == merge_children(sub[1], sroot, kids \ {q})
         IN <<rest[1], (IF newleaf THEN 1 ELSE 0) + sub[2] + rest[2]>>

\* Trie::merge_nodes_recursive(target, source) at the roots.
merge_nodes_recursive(troot, sroot) ==
    merge_children(troot, sroot, Children(sroot, <<>>))

\* Trie::merge
merge(t, o) ==
    LET m == merge_nodes_recursive(t.root, o.root)
    IN [root |-> m[1], word_count |-> t.word_count + m[2]]

\* Trie::len
TrieLen(t) == t.word_count

\* ------------------------------------------------------------ syllables

\* More characters, all of three bytes:
\*   r  U+0F62 RA      aa U+0F60 A-CHUNG   i  U+0F72 vowel I
\*   m  U+0F58 MA      ng U+0F44 NGA
AA == "aa"

EndsWith(s, c) == s # <<>> /\ s[Len(s)] = c

\* syllable::AFFIXES: the particle, its length in characters and its type.
\* The code keeps them in a HashMap and visits them in its order; the model
\* visits them in this order (the forms made of one syllable are pairwise
\* different, so each goes to a node of its own).
AFFIXES ==
    << [affix |-> <<"r">>,                len |-> 1, affix_type |-> "la"],
       [affix |-> <<"s">>,                len |-> 1, affix_type |-> "gis"],
       [affix |-> <<AA, "i">>,            len |-> 2, affix_type |-> "gi"],
       [affix |-> <<AA, "m">>,            len |-> 2, affix_type |-> "am"],
       [affix |-> <<AA, "ng">>,           len |-> 2, affix_type |-> "ang"],
       [affix |-> <<AA, "o">>,            len |-> 2, affix_type |-> "o"],
       [affix |-> <<AA, "i", AA, "o">>,   len |-> 4, affix_type |-> "gi+o"],
       [affix |-> <<AA, "i", AA, "m">>,   len |-> 4, affix_type |-> "gi+am"],
       [affix |-> <<AA, "i", AA, "ng">>,  len |-> 4, affix_type |-> "gi+ang"],
       [affix |-> <<AA, "o", AA, "m">>,   len |-> 4, affix_type |-> "o+am"],
       [affix |-> <<AA, "o", AA, "ng">>,  len |-> 4, affix_type |-> "o+ang"] >>

\* syllable::AFFIX_PARTICLES
AFFIX_PARTICLES ==
    { <<AA, "i">>, <<AA, "o">>, <<AA, "m">>, <<AA, "ng">>,
      <<AA, "i", AA, "o">>, <<AA, "i", AA, "m">>, <<AA, "i", AA, "ng">>,
      <<AA, "o", AA, "m">>, <<AA, "o", AA, "ng">> }

\* syllable::AFFIXABLE_SUFFIXES, the entries written with the characters of
\* the model.
AFFIXABLE_SUFFIXES ==
    { <<AA>>, <<"ng">>, <<"b">>, <<"m">>,
      <<"i", "ng">>, <<"i", "b">>, <<"i", "m">>, <<"i", "s">>,
      <<"o", "ng">>, <<"o", "b">>, <<"o", "m">>, <<"o", "s">>,
      <<"i">>, <<"o">>,
      <<"s">>, <<"r">> }

\* str::ends_with(&str)
EndsWithStr(s, suffix) ==
    Len(s) >= Len(suffix) /\ SubSeq(s, Len(s) - Len(suffix) + 1, Len(s)) = suffix

\* The last n characters of s.
LastChars(s, n) == SubSeq(s, Len(s) - n + 1, Len(s))

\* SylComponents::is_thame; roots is the set read from data/roots.txt.
is_thame(roots, syl) ==
    \/ syl \in roots
    \/ \E suffix_len \in 1..4 :
           Len(syl) > suffix_len /\ LastChars(syl, suffix_len) \in AFFIXABLE_SUFFIXES
    \/ EndsWith(syl, AA) /\ Len(syl) > 1

\* SylComponents::is_affixable
is_affixable(roots, syl) ==
    /\ ~ \E affix \in AFFIX_PARTICLES :
            ByteLen(syl) > ByteLen(affix) /\ EndsWithStr(syl, affix)
    /\ is_thame(roots, syl)

\* AffixData / AffixInfo
AffixData(len, affix_type, aa) == [len |-> len, affix_type |-> affix_type, aa |-> aa]

\* get_all_affixed that keeps a trailing achung in the base.
get_all_affixed_keeps_aa(roots, syl) ==
    IF ~is_affixable(roots, syl) THEN None
    ELSE LET aa == EndsWith(syl, AA) /\ Len(syl) > 1
         IN Some([i \in 1..Len(AFFIXES) |->
                    << syl \o AFFIXES[i].affix,
                       AffixData(AFFIXES[i].len, AFFIXES[i].affix_type, aa) >>])

\* SylComponents::get_all_affixed: None, or Some(list of <<form, AffixData>>).
get_all_affixed(roots, syl) ==
    IF ~is_affixable(roots, syl) THEN None
    ELSE LET aa == EndsWith(syl, AA) /\ Len(syl) > 1
             base_syl == IF aa THEN SubSeq(syl, 1, Len(syl) - 1) ELSE syl
         IN Some([i \in 1..Len(AFFIXES) |->
                    << base_syl \o AFFIXES[i].affix,
                       AffixData(AFFIXES[i].len, AFFIXES[i].affix_type, aa) >>])

\* ------------------------------------------------------------ the trie builder

\* TrieBuilder: the trie, the roots of its SylComponents, the inflect flag
\* and the inflection cache (a function from the words seen to their forms).
TrieBuilder(t, roots, inflect, cache) ==
    [trie |-> t, syl_components |-> roots, inflect |-> inflect,
     inflection_cache |-> cache]

EmptyCache == [w \in {} |-> <<>>]

\* TrieBuilder::new and TrieBuilder::with_inflection
TrieBuilder_new(roots) == TrieBuilder(EmptyTrie, roots, FALSE, EmptyCache)
TrieBuilder_with_inflection(roots) == TrieBuilder(EmptyTrie, roots, TRUE, EmptyCache)

\* TrieBuilder::set_inflection
set_inflection(tb, enable) == [tb EXCEPT !.inflect = enable]

\* TrieBuilder::get_inflected: <<builder, list of <<syllables, Option<AffixData>>>>>.
get_inflected(tb, word) ==
    IF word \in DOMAIN tb.inflection_cache
    THEN <<tb, tb.inflection_cache[word]>>
    ELSE LET syls == SplitSyls(word) IN
         IF syls = <<>> THEN <<tb, <<>>>>
         ELSE LET last_syl == syls[Len(syls)]
                  affixed == get_all_affixed(tb.syl_components, last_syl)
                  front == SubSeq(syls, 1, Len(syls) - 1)
                  inflected ==
                      << <<syls, None>> >> \o
                      (IF IsSome(affixed)
                       THEN [i \in 1..Len(Unwrap(affixed)) |->
                               << Append(front, Unwrap(affixed)[i][1]),
                                  Some(Unwrap(affixed)[i][2]) >>]
                       ELSE <<>>)
              IN << [tb EXCEPT !.inflection_cache = @ @@ (word :> inflected)],
                    inflected >>

\* One line of a TSV dictionary: form, pos and freq (the lemma and sense
\* columns are empty).
TsvLine(form, pos, freq) == [form |-> form, pos |-> pos, freq |-> freq]

RECURSIVE load_inflected(_, _, _)
\* The loop `for (syls, affix_data) in inflected` of load_tsv.
load_inflected(t, line, inflected) ==
    IF inflected = <<>> THEN t
    ELSE LET syls == Head(inflected)[1]
             affix_data == Head(inflected)[2]
             data == WordData(line.pos, None, line.freq, affix_data, <<>>)
             sense == Sense(line.pos, line.freq, IsSome(affix_data))
         IN load_inflected(add_word_with_sense(t, JoinSyls(syls, <<TSEK>>), data, sense),
                           line, Tail(inflected))

\* The body of the loop over the lines of load_tsv, for one line.
load_line(tb, line) ==
    IF tb.inflect
    THEN LET g == get_inflected(tb, line.form)
         IN [g[1] EXCEPT !.trie = load_inflected(g[1].trie, line, g[2])]
    ELSE [tb EXCEPT !.trie =
            add_word_with_sense(tb.trie, line.form,
                                WordData(line.pos, None, line.freq, None, <<>>),
                                Sense(line.pos, line.freq, FALSE))]

RECURSIVE load_tsv(_, _)
\* TrieBuilder::load_tsv of a content of these lines.
load_tsv(tb, lines) ==
    IF lines = <<>> THEN tb
    ELSE load_tsv(load_line(tb, Head(lines)), Tail(lines))

RECURSIVE deactivate_all(_, _)
\* The loop `for (syls, _) in inflected` of deactivate_inflected_word.
deactivate_all(t, inflected) ==
    IF inflected = <<>> THEN t
    ELSE deactivate_all(deactivate(t, Head(inflected)[1])[1], Tail(inflected))

\* TrieBuilder::deactivate_inflected_word
deactivate_inflected_word(tb, word) ==
    IF tb.inflect
    THEN LET g == get_inflected(tb, word)
         IN [g[1] EXCEPT !.trie = deactivate_all(g[1].trie, g[2])]
    ELSE [tb EXCEPT !.trie = deactivate(tb.trie, SplitSyls(word))[1]]

\* ------------------------------------------------------------ tokens

\* Token::with_text: the other fields take their defaults.
Token(txt, start, len, chunk_type) ==
    [text |-> txt, start |-> start, len |-> len, chunk_type |-> chunk_type,
     pos |-> None, lemma |-> None, freq |-> None, syls |-> <<>>,
     is_affix |-> FALSE, is_affix_host |-> FALSE, is_skrt |-> FALSE,
     senses |-> <<>>, affixation |-> None, has_merged_dagdra |-> FALSE]

\* text_cleaned that closes every token with a tsek.
text_cleaned_closed(tk) ==
    IF tk.syls = <<>> THEN <<>> ELSE JoinSyls(tk.syls, <<TSEK>>) \o <<TSEK>>

\* Token::text_cleaned
text_cleaned(tk) ==
    IF tk.syls = <<>> THEN <<>>
    ELSE IF tk.is_affix_host /\ ~tk.is_affix THEN JoinSyls(tk.syls, <<TSEK>>)
    ELSE JoinSyls(tk.syls, <<TSEK>>) \o <<TSEK>>

DAGDRA == {<<"p", "T">>, <<"p", "o", "T">>, <<"b", "T">>, <<"b", "o", "T">>}

\* syllable::is_dagdra
is_dagdra(txt) ==
    LET cleaned == IF EndsWith(txt, TSEK) THEN txt ELSE Append(txt, TSEK)
    IN cleaned \in DAGDRA

\* ------------------------------------------------------------ tokenizer

\* text.nfc().collect(): U+212A KELVIN SIGN has the canonical singleton
\* decomposition U+004B, so NFC replaces it; the other characters of the
\* model are unchanged by NFC.
nfc(s) == [i \in 1..Len(s) |-> IF s[i] = "kelvin" THEN "K" ELSE s[i]]

\* &original_text[start..end].to_string(); a panic of the slice shows as an
\* evaluation error.
Slice(s, from, to) == Unwrap(ByteSlice(s, from, to))

RECURSIVE longest_match_walk_first(_, _, _, _, _, _)
\* The walk of longest_match ended at the first dictionary word it meets.
longest_match_walk_first(t, cs, walker, current_node, last_match, syls) ==
    IF walker >= Len(cs) \/ IsSome(last_match[1]) THEN <<last_match[1], last_match[2], syls>>
    ELSE LET chunk == cs[walker + 1] IN
         IF IsSome(chunk.syl)
         THEN LET syl == Unwrap(chunk.syl)
                  next_node == walk(t, syl, current_node)
              IN IF IsSome(next_node)
                 THEN longest_match_walk_first(t, cs, walker + 1, next_node,
                          IF is_match(t, Unwrap(next_node))
                          THEN <<Some(walker), next_node>> ELSE last_match,
                          Append(syls, syl))
                 ELSE <<last_match[1], last_match[2], syls>>
         ELSE <<last_match[1], last_match[2], syls>>

RECURSIVE longest_match_walk(_, _, _, _, _, _)
\* The while loop of longest_match: <<last_match_idx, last_match_node, syls>>
\* when it ends (the two Options, and the syllables walked).
longest_match_walk(t, cs, walker, current_node, last_match, syls) ==
    IF walker >= Len(cs) THEN <<last_match[1], last_match[2], syls>>
    ELSE LET chunk == cs[walker + 1] IN
         IF IsSome(chunk.syl)
         THEN LET syl == Unwrap(chunk.syl)
                  next_node == walk(t, syl, current_node)
              IN IF IsSome(next_node)
                 THEN longest_match_walk(t, cs, walker + 1, next_node,
                          IF is_match(t, Unwrap(next_node))
                          THEN <<Some(walker), next_node>> ELSE last_match,
                          Append(syls, syl))
                 ELSE <<last_match[1], last_match[2], syls>>
         ELSE <<last_match[1], last_match[2], syls>>

\* The branch of longest_match taken when a word was found: <<token, next_i>>.
matched_token(t, cs, original_text, start_i, match_idx, last_match_node, syls) ==
    LET start == cs[start_i + 1].start
        end == cs[match_idx + 1].start + cs[match_idx + 1].len
        tk == [Token(Slice(original_text, start, end), start, end - start, "Text")
                 EXCEPT !.syls = SubSeq(syls, 1, match_idx - start_i + 1)]
        data == IF IsSome(last_match_node)
                THEN t.root[Unwrap(last_match_node)].data ELSE None
        d == Unwrap(data)
    IN <<IF IsSome(data)
         THEN [tk EXCEPT !.pos = d.pos, !.lemma = d.lemma, !.freq = d.freq,
                         !.is_skrt = d.skrt, !.senses = d.senses,
                         !.affixation =
                             IF IsSome(d.affixation)
                             THEN Some([len |-> Unwrap(d.affixation).len,
                                        aa |-> Unwrap(d.affixation).aa])
                             ELSE None]
         ELSE tk,
         match_idx + 1>>

\* unknown_token that resumes one chunk too far.
unknown_token_skips(cs, original_text, start_i) ==
    LET chunk == cs[start_i + 1]
        tk == Token(Slice(original_text, chunk.start, chunk.start + chunk.len),
                    chunk.start, chunk.len, "Text")
    IN <<[tk EXCEPT !.syls = IF IsSome(chunk.syl) THEN <<Unwrap(chunk.syl)>> ELSE @,
                    !.pos = Some("NO_POS")],
         start_i + 2>>

\* The branch of longest_match taken when no word was found: <<token, next_i>>.
unknown_token(cs, original_text, start_i) ==
    LET chunk == cs[start_i + 1]
        tk == Token(Slice(original_text, chunk.start, chunk.start + chunk.len),
                    chunk.start, chunk.len, "Text")
    IN <<[tk EXCEPT !.syls = IF IsSome(chunk.syl) THEN <<Unwrap(chunk.syl)>> ELSE @,
                    !.pos = Some("NO_POS")],
         start_i + 1>>

\* Tokenizer::longest_match: <<token, next_i>>.
longest_match(t, cs, original_text, start_i) ==
    LET r == longest_match_walk(t, cs, start_i, None, <<None, None>>, <<>>)
        last_match_idx == r[1]
    IN IF IsSome(last_match_idx)
       THEN matched_token(t, cs, original_text, start_i, Unwrap(last_match_idx), r[2], r[3])
       ELSE unknown_token(cs, original_text, start_i)

\* The byte range <<from, to>> of original_text that the iteration of
\* tokenize_chunks at index i slices: the chunk's own range, or the range
\* of the chunks of the word longest_match found.
tokenize_chunks_range(t, cs, i) ==
    LET chunk == cs[i + 1]
        own == <<chunk.start, chunk.start + chunk.len>>
    IN IF ~IsSome(chunk.syl) THEN own
       ELSE LET r == longest_match_walk(t, cs, i, None, <<None, None>>, <<>>)
            IN IF IsSome(r[1])
               THEN <<chunk.start, cs[Unwrap(r[1]) + 1].start + cs[Unwrap(r[1]) + 1].len>>
               ELSE own

\* One iteration of the while loop of tokenize_chunks at index i:
\* <<tokens, i>> after it.
tokenize_chunks_iteration(t, cs, original_text, i, tokens) ==
    LET chunk == cs[i + 1] IN
    IF ~IsSome(chunk.syl)
    THEN <<Append(tokens,
                  Token(Slice(original_text, chunk.start, chunk.start + chunk.len),
                        chunk.start, chunk.len, chunk.chunk_type)),
           i + 1>>
    ELSE LET r == longest_match(t, cs, original_text, i)
         IN <<Append(tokens, r[1]), r[2]>>

RECURSIVE tokenize_chunks_loop(_, _, _, _, _)
\* The while loop of tokenize_chunks.
tokenize_chunks_loop(t, cs, original_text, i, tokens) ==
    IF i >= Len(cs) THEN tokens
    ELSE LET r == tokenize_chunks_iteration(t, cs, original_text, i, tokens)
         IN tokenize_chunks_loop(t, cs, original_text, r[2], r[1])

\* Tokenizer::tokenize_chunks
tokenize_chunks(t, cs, original_text) ==
    tokenize_chunks_loop(t, cs, original_text, 0, <<>>)

\* str::contains(needle) for a string needle.
Contains(hay, needle) ==
    \E i \in 0..(Len(hay) - Len(needle)) : SubSeq(hay, i + 1, i + Len(needle)) = needle

\* The Text part text[from..to) of split_token_on_spaces (character indices;
\* the byte offsets are taken from the token's text).
SpacePart(tk, from, to) ==
    LET part_text == SubSeq(tk.text, from + 1, to)
        bp == BytePositions(tk.text)
        part == Token(part_text, tk.start + bp[from], bp[to] - bp[from], "Text")
    IN IF tk.syls # <<>>
       THEN [part EXCEPT !.syls = SelectSeq(tk.syls, LAMBDA x : Contains(part_text, x))]
       ELSE part

\* The Punct part text[from..to) of split_token_on_spaces.
SpaceToken(tk, from, to) ==
    LET bp == BytePositions(tk.text)
    IN Token(SubSeq(tk.text, from + 1, to), tk.start + bp[from], bp[to] - bp[from], "Punct")

RECURSIVE split_token_on_spaces_loop(_, _, _, _, _, _)
\* The for loop of split_token_on_spaces and the handling of the trailing
\* content after it.
split_token_on_spaces_loop(tk, i, current_start, in_space, space_start, result) ==
    LET n == Len(tk.text) IN
    IF i >= n
    THEN IF in_space THEN Append(result, SpaceToken(tk, space_start, n))
         ELSE IF current_start < n THEN Append(result, SpacePart(tk, current_start, n))
         ELSE result
    ELSE LET is_space == tk.text[i + 1] \in {"sp", "nl", "tab", "cr"} IN
         IF is_space /\ ~in_space
         THEN split_token_on_spaces_loop(tk, i + 1, current_start, TRUE, i,
                  IF i > current_start
                  THEN Append(result, SpacePart(tk, current_start, i)) ELSE result)
         ELSE IF ~is_space /\ in_space
         THEN split_token_on_spaces_loop(tk, i + 1, i, FALSE, space_start,
                  Append(result, SpaceToken(tk, space_start, i)))
         ELSE split_token_on_spaces_loop(tk, i + 1, current_start, in_space, space_start,
                                         result)

\* Tokenizer::split_token_on_spaces
split_token_on_spaces(tk) == split_token_on_spaces_loop(tk, 0, 0, FALSE, 0, <<>>)

RECURSIVE split_spaces_as_punct(_)
\* Tokenizer::split_spaces_as_punct
split_spaces_as_punct(tokens) ==
    IF tokens = <<>> THEN <<>>
    ELSE LET tk == Head(tokens) IN
         (IF tk.chunk_type = "Text" /\ Contains(tk.text, <<"sp">>)
          THEN split_token_on_spaces(tk) ELSE <<tk>>)
         \o split_spaces_as_punct(Tail(tokens))

\* ------------------------------------------------------------ modifiers

\* modifiers::split_token_at_affix: <<host, particle>>.
split_token_at_affix(tk, affix_len) ==
    LET syls == tk.syls
        last_syl == syls[Len(syls)]
        split_char_idx == Len(last_syl) - affix_len
        host_syl == SubSeq(last_syl, 1, split_char_idx)
        particle_syl == SubSeq(last_syl, split_char_idx + 1, Len(last_syl))
        host_syls == SubSeq(syls, 1, Len(syls) - 1) \o
                     (IF host_syl # <<>> THEN <<host_syl>> ELSE <<>>)
        host_text == JoinSyls(host_syls, <<TSEK>>)
        host_len == ByteLen(host_text)
        host == [Token(host_text, tk.start, host_len, "Text")
                   EXCEPT !.syls = host_syls, !.pos = tk.pos, !.lemma = tk.lemma,
                          !.freq = tk.freq, !.is_affix_host = TRUE,
                          !.senses = tk.senses]
        particle_text == Append(particle_syl, TSEK)
        particle_start == tk.start + host_len
        particle_len == ByteLen(particle_text)
        particle == [Token(particle_text, particle_start, particle_len, "Text")
                       EXCEPT !.syls = <<particle_syl>>, !.pos = Some("PART"),
                              !.is_affix = TRUE]
    IN <<host, particle>>

\* should_split without the test on the number of syllables.
should_split_single(tk) ==
    /\ IsSome(tk.affixation)
    /\ ~\E j \in 1..Len(tk.senses) : ~tk.senses[j].affixed
    /\ Len(tk.syls[Len(tk.syls)]) >= Unwrap(tk.affixation).len

\* The conditions of split_affixed under which tokens[i] is split.
should_split(tk) ==
    /\ IsSome(tk.affixation)
    /\ ~\E j \in 1..Len(tk.senses) : ~tk.senses[j].affixed
    /\ Len(tk.syls) > 1
    /\ Len(tk.syls[Len(tk.syls)]) >= Unwrap(tk.affixation).len

\* split_affixed_iteration that splits nothing.
split_affixed_iteration_skips(tokens, i) == <<tokens, i + 1>>

\* One iteration of the while loop of split_affixed at index i (0-based):
\* <<tokens, i>> after it.
split_affixed_iteration(tokens, i) ==
    LET tk == tokens[i + 1] IN
    IF should_split(tk)
    THEN LET hp == split_token_at_affix(tk, Unwrap(tk.affixation).len)
         IN <<SubSeq(tokens, 1, i) \o <<hp[1], hp[2]>> \o
              SubSeq(tokens, i + 2, Len(tokens)),
              i + 2>>
    ELSE <<tokens, i + 1>>

RECURSIVE split_affixed(_)
\* modifiers::split_affixed (the list is rebuilt front to back: a split
\* token is replaced by its host and particle, and the particle is skipped).
split_affixed(tokens) ==
    IF tokens = <<>> THEN <<>>
    ELSE LET tk == Head(tokens) IN
         (IF should_split(tk)
          THEN LET hp == split_token_at_affix(tk, Unwrap(tk.affixation).len)
               IN <<hp[1], hp[2]>>
          ELSE <<tk>>)
         \o split_affixed(Tail(tokens))

\* merge_two_tokens that keeps the linguistic fields of the second token.
merge_two_tokens_second(first, second) ==
    LET merged == [Token(first.text \o second.text, first.start,
                         first.len + second.len, "Text")
                     EXCEPT !.syls = first.syls \o second.syls, !.pos = second.pos,
                            !.freq = second.freq, !.has_merged_dagdra = TRUE]
    IN [merged EXCEPT !.lemma = Some(text_cleaned(merged))]

\* modifiers::merge_two_tokens
merge_two_tokens(first, second) ==
    LET merged == [Token(first.text \o second.text, first.start,
                         first.len + second.len, "Text")
                     EXCEPT !.syls = first.syls \o second.syls, !.pos = first.pos,
                            !.freq = first.freq, !.has_merged_dagdra = TRUE]
    IN [merged EXCEPT !.lemma = Some(text_cleaned(merged))]

\* merge_dagdra_iteration that stays where it is when it does not merge.
merge_dagdra_iteration_stalls(tokens, i) ==
    LET is_text_pair == tokens[i + 1].chunk_type = "Text" /\
                        tokens[i + 2].chunk_type = "Text"
    IN IF is_text_pair /\ is_dagdra(text_cleaned(tokens[i + 2]))
       THEN <<SubSeq(tokens, 1, i) \o
              <<merge_two_tokens(tokens[i + 1], tokens[i + 2])>> \o
              SubSeq(tokens, i + 3, Len(tokens)),
              i>>
       ELSE <<tokens, i>>

\* One iteration of the while loop of merge_dagdra at index i (0-based):
\* <<tokens, i>> after it.
merge_dagdra_iteration(tokens, i) ==
    LET is_text_pair == tokens[i + 1].chunk_type = "Text" /\
                        tokens[i + 2].chunk_type = "Text"
    IN IF is_text_pair /\ is_dagdra(text_cleaned(tokens[i + 2]))
       THEN <<SubSeq(tokens, 1, i) \o
              <<merge_two_tokens(tokens[i + 1], tokens[i + 2])>> \o
              SubSeq(tokens, i + 3, Len(tokens)),
              i>>
       ELSE <<tokens, i + 1>>

RECURSIVE merge_dagdra_loop(_, _)
\* The while loop of merge_dagdra (i is 0-based).
merge_dagdra_loop(tokens, i) ==
    IF i >= Len(tokens) - 1 THEN tokens
    ELSE LET r == merge_dagdra_iteration(tokens, i)
         IN merge_dagdra_loop(r[1], r[2])

\* modifiers::merge_dagdra
merge_dagdra(tokens) ==
    IF Len(tokens) <= 1 THEN tokens ELSE merge_dagdra_loop(tokens, 0)

\* modifiers::generate_default_lemmas
generate_default_lemmas(tokens) ==
    [i \in 1..Len(tokens) |->
        IF ~IsSome(tokens[i].lemma) /\ tokens[i].syls # <<>>
        THEN [tokens[i] EXCEPT !.lemma = Some(text_cleaned(tokens[i]))]
        ELSE tokens[i]]

FreqOrZero(sn) == IF IsSome(sn.freq) THEN Unwrap(sn.freq) ELSE 0

RECURSIVE InsertByFreq(_, _)
\* Insert sn into a list sorted by freq, highest first, after its equals.
InsertByFreq(sorted, sn) ==
    IF sorted = <<>> THEN <<sn>>
    ELSE IF FreqOrZero(Head(sorted)) >= FreqOrZero(sn)
    THEN <<Head(sorted)>> \o InsertByFreq(Tail(sorted), sn)
    ELSE <<sn>> \o sorted

RECURSIVE SortByFreq(_, _)
\* senses.sort_by(|a, b| freq_b.cmp(&freq_a)): a stable sort.
SortByFreq(senses, sorted) ==
    IF senses = <<>> THEN sorted
    ELSE SortByFreq(Tail(senses), InsertByFreq(sorted, Head(senses)))

\* modifiers::choose_default_senses
choose_default_senses(tokens) ==
    [i \in 1..Len(tokens) |->
        IF Len(tokens[i].senses) > 1
        THEN LET sorted == SortByFreq(tokens[i].senses, <<>>)
             IN [tokens[i] EXCEPT !.senses = sorted,
                                  !.pos = IF ~IsSome(@) THEN sorted[1].pos ELSE @]
        ELSE tokens[i]]

\* modifiers::apply_all_modifiers
apply_all_modifiers(tokens, split_affixes) ==
    choose_default_senses(
        generate_default_lemmas(
            merge_dagdra(IF split_affixes THEN split_affixed(tokens) ELSE tokens)))

\* Tokenizer::tokenize_with_full_options with the trie t.
tokenize_with_full_options(t, txt, split_affixes, spaces_as_punct) ==
    LET normalized == nfc(txt)
        raw == tokenize_chunks(t, make_chunks(normalized), normalized)
    IN apply_all_modifiers(IF spaces_as_punct THEN split_spaces_as_punct(raw) ELSE raw,
                           split_affixes)

\* SimpleTokenizer::tokenize, after the normalization.
simple_tokens(normalized) ==
    LET cs == make_chunks(normalized)
    IN [i \in 1..Len(cs) |->
          LET tk == Token(Slice(normalized, cs[i].start, cs[i].start + cs[i].len),
                          cs[i].start, cs[i].len, cs[i].chunk_type)
          IN IF IsSome(cs[i].syl) THEN [tk EXCEPT !.syls = <<Unwrap(cs[i].syl)>>] ELSE tk]

\* ------------------------------------------------------------ sentences

\* sentence::ENDING_PARTICLES, CLAUSE_BOUNDARIES, ENDING_WORDS and
\* ENDING_VERBS, the entries written with the characters of the model (n is
\* U+0F53 NA, y U+0F61 YA, sh U+0F64 SHA, g U+0F42 GA). sentence::DAGDRA has
\* the entries of syllable::DAGDRA.
ENDING_PARTICLES == {<<"ng", "o", "T">>, <<"b", "o", "T">>, <<"m", "o", "T">>,
                     <<"s", "o", "T">>}
CLAUSE_BOUNDARIES == {<<"n", "s", "T">>, <<"n", "T">>}
ENDING_WORDS == {<<"sh", "o", "g", "T">>}
ENDING_VERBS == {<<"y", "i", "n", "T">>, <<"s", "o", "ng", "T">>}

\* sentence::has_last_syl
has_last_syl(token, patterns) ==
    IF token.syls = <<>> THEN FALSE
    ELSE Append(token.syls[Len(token.syls)], TSEK) \in patterns

\* sentence::is_ending_particle
is_ending_particle(token) ==
    token.pos = Some("PART") /\ has_last_syl(token, ENDING_PARTICLES)

\* sentence::is_ending_particle_and_punct
is_ending_particle_and_punct(token1, token2) ==
    is_ending_particle(token1) /\ token2.chunk_type = "Punct"

\* sentence::is_clause_boundary_and_punct
is_clause_boundary_and_punct(token1, token2) ==
    /\ has_last_syl(token1, CLAUSE_BOUNDARIES) \/ has_last_syl(token1, ENDING_WORDS)
    /\ token2.chunk_type = "Punct"

\* The is_verb of is_verb_and_punct, is_verb_and_clause_boundary and
\* join_no_verb_sentences.
sentence_is_verb(token) ==
    token.pos = Some("VERB") /\ ~has_last_syl(token, DAGDRA)

\* sentence::is_verb_and_punct
is_verb_and_punct(token1, token2) ==
    /\ sentence_is_verb(token1) \/ has_last_syl(token1, ENDING_VERBS)
    /\ token2.chunk_type = "Punct"

\* sentence::is_verb_and_clause_boundary
is_verb_and_clause_boundary(token1, token2) ==
    /\ sentence_is_verb(token1) \/ has_last_syl(token1, ENDING_VERBS)
    /\ has_last_syl(token2, CLAUSE_BOUNDARIES)

\* The call test(&tokens[i - 1], &tokens[i]) of the function named test.
BoundaryTest(test, token1, token2) ==
    CASE test = "is_ending_particle_and_punct" ->
             is_ending_particle_and_punct(token1, token2)
      [] test = "is_clause_boundary_and_punct" ->
             is_clause_boundary_and_punct(token1, token2)
      [] test = "is_verb_and_punct" -> is_verb_and_punct(token1, token2)
      [] OTHER -> is_verb_and_clause_boundary(token1, token2)

RECURSIVE find_boundaries_loop(_, _, _, _, _)
\* The for loop of find_boundaries from index i (0-based):
\* <<boundaries, start>> after it.
find_boundaries_loop(tokens, test, i, start, boundaries) ==
    IF i >= Len(tokens) THEN <<boundaries, start>>
    ELSE IF BoundaryTest(test, tokens[i], tokens[i + 1])
    THEN find_boundaries_loop(tokens, test, i + 1, i + 1,
                              Append(boundaries, <<start, i>>))
    ELSE find_boundaries_loop(tokens, test, i + 1, start, boundaries)

\* sentence::find_boundaries
find_boundaries(tokens, test) ==
    LET r == find_boundaries_loop(tokens, test, 1, 0, <<>>)
        with_last == IF r[2] < Len(tokens)
                     THEN Append(r[1], <<r[2], Len(tokens) - 1>>)
                     ELSE r[1]
    IN IF with_last = <<>> THEN <<<<0, Len(tokens) - 1>>>> ELSE with_last

RECURSIVE refine_segment_loop(_, _, _, _, _, _)
\* refine_segment_loop that starts the next segment at the boundary itself.
refine_segment_loop_overlaps(tokens, test, i, end, segment_start, result) ==
    IF i > end THEN <<result, segment_start>>
    ELSE IF i < Len(tokens) /\ BoundaryTest(test, tokens[i], tokens[i + 1])
    THEN refine_segment_loop(tokens, test, i + 1, end, i,
                             Append(result, <<segment_start, i>>))
    ELSE refine_segment_loop(tokens, test, i + 1, end, segment_start, result)

\* The inner for loop of refine_boundaries and of refine_long_sentences
\* from index i (0-based): <<result, segment_start>> after it.
refine_segment_loop(tokens, test, i, end, segment_start, result) ==
    IF i > end THEN <<result, segment_start>>
    ELSE IF i < Len(tokens) /\ BoundaryTest(test, tokens[i], tokens[i + 1])
    THEN refine_segment_loop(tokens, test, i + 1, end, i + 1,
                             Append(result, <<segment_start, i>>))
    ELSE refine_segment_loop(tokens, test, i + 1, end, segment_start, result)

\* The body of the outer loop for one segment that is split: the result
\* with the pieces of (start, end) pushed.
refine_segment(tokens, test, start, end, result) ==
    LET r == refine_segment_loop(tokens, test, start + 1, end, start, result)
    IN IF r[2] <= end THEN Append(r[1], <<r[2], end>>) ELSE r[1]

RECURSIVE refine_boundaries_loop(_, _, _, _)
refine_boundaries_loop(tokens, boundaries, test, result) ==
    IF boundaries = <<>> THEN result
    ELSE refine_boundaries_loop(tokens, Tail(boundaries), test,
             refine_segment(tokens, test, Head(boundaries)[1], Head(boundaries)[2],
                            result))

\* sentence::refine_boundaries
refine_boundaries(tokens, boundaries, test) ==
    refine_boundaries_loop(tokens, boundaries, test, <<>>)

RECURSIVE refine_long_sentences_loop(_, _, _, _, _)
refine_long_sentences_loop(tokens, boundaries, test, threshold, result) ==
    IF boundaries = <<>> THEN result
    ELSE LET start == Head(boundaries)[1]
             end == Head(boundaries)[2]
         IN refine_long_sentences_loop(tokens, Tail(boundaries), test, threshold,
                IF end - start > threshold
                THEN refine_segment(tokens, test, start, end, result)
                ELSE Append(result, <<start, end>>))

\* sentence::refine_long_sentences
refine_long_sentences(tokens, boundaries, test, threshold) ==
    refine_long_sentences_loop(tokens, boundaries, test, threshold, <<>>)

\* Vec::remove(i), i 0-based.
RemoveAt(v, i) == SubSeq(v, 1, i) \o SubSeq(v, i + 2, Len(v))

RECURSIVE join_no_verb_sentences_loop(_, _, _, _)
\* The while loop of join_no_verb_sentences from index i (0-based).
join_no_verb_sentences_loop(tokens, result, i, threshold) ==
    IF i >= Len(result) THEN result
    ELSE LET start == result[i + 1][1]
             end == result[i + 1][2]
             length == end - start + 1
             has_verb == \E k \in start..end : sentence_is_verb(tokens[k + 1])
         IN IF length <= threshold /\ ~has_verb
            THEN IF i + 1 < Len(result) /\ has_last_syl(tokens[end + 1], CLAUSE_BOUNDARIES)
                 THEN join_no_verb_sentences_loop(tokens,
                          RemoveAt([result EXCEPT ![i + 2][1] = start], i), i, threshold)
                 ELSE IF i > 0 /\ ~has_last_syl(tokens[result[i][2] + 1], ENDING_PARTICLES)
                 THEN join_no_verb_sentences_loop(tokens,
                          RemoveAt([result EXCEPT ![i][2] = end], i), i, threshold)
                 ELSE join_no_verb_sentences_loop(tokens, result, i + 1, threshold)
            ELSE join_no_verb_sentences_loop(tokens, result, i + 1, threshold)

\* sentence::join_no_verb_sentences
join_no_verb_sentences(tokens, boundaries, threshold) ==
    join_no_verb_sentences_loop(tokens, boundaries, 0, threshold)

\* sentence::get_sentence_indices
get_sentence_indices(tokens) ==
    IF tokens = <<>> THEN <<>>
    ELSE LET b1 == find_boundaries(tokens, "is_ending_particle_and_punct")
             b2 == refine_boundaries(tokens, b1, "is_clause_boundary_and_punct")
             b3 == refine_boundaries(tokens, b2, "is_verb_and_punct")
             b4 == refine_long_sentences(tokens, b3, "is_verb_and_clause_boundary", 30)
         IN join_no_verb_sentences(tokens, b4, 4)

\* Sentence
Sentence(tokens, word_count, start_idx, end_idx) ==
    [tokens |-> tokens, word_count |-> word_count,
     start_idx |-> start_idx, end_idx |-> end_idx]

\* sentence::sentence_tokenize
sentence_tokenize(tokens) ==
    IF tokens = <<>> THEN <<>>
    ELSE LET indices == get_sentence_indices(tokens)
         IN [n \in 1..Len(indices) |->
                LET start == indices[n][1]
                    end == indices[n][2]
                    sentence_tokens == SubSeq(tokens, start + 1, end + 1)
                IN Sentence(sentence_tokens,
                            Cardinality({k \in 1..Len(sentence_tokens) :
                                            sentence_tokens[k].chunk_type = "Text"}),
                            start, end)]

\* ------------------------------------------------------------ state

VARIABLES
    phase,      \* "input": a call is about to be made; "done": it has returned
    text,       \* the string given to the call
    chunks,     \* the chunks make_chunks returned
    trie,       \* a Trie
    other,      \* a second Trie, the argument of Trie::merge
    nops,       \* the number of trie operations made so far
    last,       \* the last trie operation: its name, arguments and result
    run,        \* the last tokenizer call: its options and what each stage made
    builder,    \* a TrieBuilder
    bop,        \* the last call on the builder: its name and arguments, and
                \* the number of calls made so far
    calls,      \* the tokenize calls in progress on tokenizers sharing the trie
    frame       \* the local variables of one tokenize call followed loop by loop

vars == <<phase, text, chunks, trie, other, nops, last, run, builder, bop, calls, frame>>

NoOp == [op |-> "none", w |-> <<>>, data |-> None, ret |-> FALSE, had_data |-> FALSE,
         sense |-> None]

TrieIdle == trie = EmptyTrie /\ other = EmptyTrie /\ nops = 0 /\ last = NoOp
ChunkerIdle == phase = "input" /\ text = <<>> /\ chunks = <<>>

NoRun == [call |-> "none", split_affixes |-> FALSE, spaces_as_punct |-> FALSE,
          normalized |-> <<>>, raw |-> <<>>, spaced |-> <<>>, split |-> <<>>,
          tokens |-> <<>>]

NoBuilderOp == [op |-> "none", lines |-> <<>>, word |-> <<>>, n |-> 0]

BuilderIdle == builder = TrieBuilder_new({}) /\ bop = NoBuilderOp

\* A call that has not started, and the Tokenizer it is made on.
NoCall == [pc |-> "idle", text |-> <<>>, split_affixes |-> FALSE,
           spaces_as_punct |-> FALSE, normalized |-> <<>>, chunks |-> <<>>,
           tokens |-> <<>>]

NoFrame == [pc |-> "idle", split_affixes |-> FALSE, spaces_as_punct |-> FALSE,
            normalized |-> <<>>, i |-> 0, chunks |-> <<>>, tokens |-> <<>>]

CallsIdle == calls = <<>> /\ frame = NoFrame

TokIdle == run = NoRun /\ BuilderIdle /\ CallsIdle

SeqsUpTo(S, n) == UNION {[1..m -> S] : m \in 0..n}

\* ------------------------------------------------------------ the chunker alone

\* One character of every category the chunker distinguishes.
ChunkAlphabet == {"k", "T", "/", "1", "%", "sp", "a", "C", "emoji"}

InitChunk ==
    /\ phase = "input"
    /\ text \in SeqsUpTo(ChunkAlphabet, MaxChunkText)
    /\ chunks = <<>>
    /\ TrieIdle
    /\ TokIdle

\* Chunker::new(text).make_chunks()
MakeChunks ==
    /\ phase = "input"
    /\ chunks' = make_chunks(text)
    /\ phase' = "done"
    /\ UNCHANGED <<text, trie, other, nops, last, run, builder, bop, calls, frame>>

NextChunk == MakeChunks

SpecChunk == InitChunk /\ [][NextChunk]_vars

\* ------------------------------------------------------------ the tokenizer

\* The dictionary entries, as load_tsv makes them with inflection on: a
\* word, a word that extends it by two syllables, and the form of a
\* two-syllable word with the particle U+0F66 affixed (AFFIXES: len 1, "gis").
DictEntries ==
    {[word |-> <<"k">>,
      data |-> WordData(Some("NOUN"), None, Some(5), None, <<>>),
      sense |-> Sense(Some("NOUN"), Some(5), FALSE)],
     [word |-> <<"k", "T", "k", "T", "k">>,
      data |-> WordData(Some("VERB"), None, Some(3), None, <<>>),
      sense |-> Sense(Some("VERB"), Some(3), FALSE)],
     [word |-> <<"k", "T", "k", "s">>,
      data |-> WordData(Some("ADJ"), None, Some(4),
                        Some([len |-> 1, affix_type |-> "gis", aa |-> FALSE]), <<>>),
      sense |-> Sense(Some("ADJ"), Some(4), TRUE)]}

RECURSIVE TrieOf(_)
\* The trie made by adding the entries of a set, one add_word_with_sense
\* each.
TrieOf(entries) ==
    IF entries = {} THEN EmptyTrie
    ELSE LET e == CHOOSE x \in entries : TRUE
         IN add_word_with_sense(TrieOf(entries \ {e}), e.word, e.data, e.sense)

\* The pieces the input texts are made of: single characters (a consonant,
\* the affix consonant, a dagdra consonant, a tsek, a space, and KELVIN SIGN,
\* which NFC replaces) and two whole syllables.
TokUnits ==
    {<<"k">>, <<"s">>, <<"b">>, <<"T">>, <<"sp">>, <<"kelvin">>,
     <<"k", "T">>, <<"k", "s", "T">>}

TokTexts == {Concat(us) : us \in SeqsUpTo(TokUnits, MaxUnits)}

InitTok ==
    /\ phase = "input"
    /\ text \in TokTexts
    /\ chunks = <<>>
    /\ trie \in {TrieOf(es) : es \in SUBSET DictEntries}
    /\ other = EmptyTrie /\ nops = 0 /\ last = NoOp
    /\ TokIdle

\* Tokenizer::tokenize_with_full_options(text, split_affixes, spaces_as_punct)
Tokenize ==
    /\ phase = "input"
    /\ \E split_affixes \in BOOLEAN, spaces_as_punct \in BOOLEAN :
          LET normalized == nfc(text)
              cs == make_chunks(normalized)
              raw == tokenize_chunks(trie, cs, normalized)
              spaced == IF spaces_as_punct THEN split_spaces_as_punct(raw) ELSE raw
          IN /\ chunks' = cs
             /\ run' = [call |-> "tokenize", split_affixes |-> split_affixes,
                        spaces_as_punct |-> spaces_as_punct,
                        normalized |-> normalized, raw |-> raw, spaced |-> spaced,
                        split |-> IF split_affixes THEN split_affixed(spaced) ELSE spaced,
                        tokens |-> apply_all_modifiers(spaced, split_affixes)]
    /\ phase' = "done"
    /\ UNCHANGED <<text, trie, other, nops, last, builder, bop, calls, frame>>

\* SimpleTokenizer::tokenize(text)
SimpleTokenize ==
    /\ phase = "input"
    /\ LET normalized == nfc(text)
           tokens == simple_tokens(normalized)
       IN /\ chunks' = make_chunks(normalized)
          /\ run' = [NoRun EXCEPT !.call = "simple", !.normalized = normalized,
                                  !.raw = tokens, !.spaced = tokens, !.split = tokens,
                                  !.tokens = tokens]
    /\ phase' = "done"
    /\ UNCHANGED <<text, trie, other, nops, last, builder, bop, calls, frame>>

NextTok == Tokenize \/ SimpleTokenize

SpecTok == InitTok /\ [][NextTok]_vars

\* ------------------------------------------------------------ texts with whitespace

\* Longest text (in characters) of the texts with whitespace.
MaxSpaceText == 4

\* A consonant, a tsek, a space and a tab.
SpaceAlphabet == {"k", "T", "sp", "tab"}

InitSpace ==
    /\ phase = "input"
    /\ text \in SeqsUpTo(SpaceAlphabet, MaxSpaceText)
    /\ chunks = <<>>
    /\ trie \in {EmptyTrie, TrieOf({e \in DictEntries : e.word = <<"k">>})}
    /\ other = EmptyTrie /\ nops = 0 /\ last = NoOp
    /\ TokIdle

NextSpace == Tokenize

SpecSpace == InitSpace /\ [][NextSpace]_vars

\* ------------------------------------------------------------ texts made of words

\* Number of pieces in a text made of words.
MaxWords == 3

\* The pieces: the affixed word of the dictionary without and with its
\* closing tsek, a syllable, a dagdra syllable, a shad, a space and KELVIN
\* SIGN.
WordUnits ==
    {<<"k", "T", "k", "s">>, <<"k", "T", "k", "s", "T">>, <<"k", "T">>, <<"b", "T">>,
     <<"/">>, <<"sp">>, <<"kelvin">>}

InitWords ==
    /\ phase = "input"
    /\ text \in {Concat(us) : us \in SeqsUpTo(WordUnits, MaxWords)}
    /\ chunks = <<>>
    /\ trie \in {TrieOf(DictEntries), TrieOf({e \in DictEntries : e.word = <<"k">>})}
    /\ other = EmptyTrie /\ nops = 0 /\ last = NoOp
    /\ TokIdle

NextWords == Tokenize

SpecWords == InitWords /\ [][NextWords]_vars

\* ------------------------------------------------------------ calls sharing a trie

\* Number of tokenizers made with Tokenizer::with_arc on one Arc<Trie>, each
\* running one call.
NumCalls == 2

\* The texts of the calls: an affixed word of the dictionary, a word
\* followed by a dagdra syllable and a text with a space in a syllable.
ShareTexts ==
    {<<"k", "T", "k", "s", "T">>, <<"k", "T", "b", "T">>,
     <<"k", "sp", "T", "k", "T", "k">>}

\* tokenize_with_full_options up to make_chunks, for call c of the calls cs:
\* the text is normalized and chunked.
call_make_chunks(cs, c, txt, split_affixes, spaces_as_punct) ==
    [cs EXCEPT ![c] = [NoCall EXCEPT !.pc = "chunked", !.text = txt,
                                     !.split_affixes = split_affixes,
                                     !.spaces_as_punct = spaces_as_punct,
                                     !.normalized = nfc(txt),
                                     !.chunks = make_chunks(nfc(txt))]]

\* call_tokenize_chunks that keeps the token list in one place for every
\* call.
call_tokenize_chunks_shared(cs, c, t) ==
    [d \in DOMAIN cs |->
        [cs[d] EXCEPT !.pc = IF d = c THEN "matched" ELSE @,
                      !.tokens = tokenize_chunks(t, cs[c].chunks, cs[c].normalized)]]

\* self.tokenize_chunks(&chunks, &normalized) of call c, reading the trie t.
call_tokenize_chunks(cs, c, t) ==
    [cs EXCEPT ![c].pc = "matched",
               ![c].tokens = tokenize_chunks(t, cs[c].chunks, cs[c].normalized)]

\* The rest of tokenize_with_full_options for call c: split_spaces_as_punct
\* and apply_all_modifiers.
call_modify(cs, c) ==
    [cs EXCEPT ![c].pc = "returned",
               ![c].tokens =
                   apply_all_modifiers(IF cs[c].spaces_as_punct
                                       THEN split_spaces_as_punct(cs[c].tokens)
                                       ELSE cs[c].tokens,
                                       cs[c].split_affixes)]

InitShare ==
    /\ ChunkerIdle
    /\ trie = TrieOf(DictEntries)
    /\ other = EmptyTrie /\ nops = 0 /\ last = NoOp
    /\ run = NoRun /\ BuilderIdle /\ frame = NoFrame
    /\ calls = [c \in 1..NumCalls |-> NoCall]

ShareStep(cs) ==
    /\ calls' = cs
    /\ UNCHANGED <<phase, text, chunks, trie, other, nops, last, run, builder, bop, frame>>

CallMakeChunks ==
    \E c \in DOMAIN calls, txt \in ShareTexts, sa \in BOOLEAN, sp \in BOOLEAN :
        /\ calls[c].pc = "idle"
        /\ ShareStep(call_make_chunks(calls, c, txt, sa, sp))

CallTokenizeChunks ==
    \E c \in DOMAIN calls :
        /\ calls[c].pc = "chunked"
        /\ ShareStep(call_tokenize_chunks(calls, c, trie))

CallModify ==
    \E c \in DOMAIN calls :
        /\ calls[c].pc = "matched"
        /\ ShareStep(call_modify(calls, c))

NextShare == CallMakeChunks \/ CallTokenizeChunks \/ CallModify

SpecShare == InitShare /\ [][NextShare]_vars

\* ------------------------------------------------------------ one call, loop by loop

\* Number of pieces in the text of a call followed loop by loop.
MaxStepUnits == 2

\* The pieces: a syllable, the affixed word without its closing tsek, a
\* dagdra syllable, a shad and a space.
StepUnits ==
    {<<"k", "T">>, <<"k", "T", "k", "s">>, <<"b", "T">>, <<"/">>, <<"sp">>}

\* A trie made with Trie::add alone: the empty word, a word whose
\* affixation has length 0 and a word whose affixation is longer than its
\* last syllable, both without senses.
OddTrie ==
    add(add(add(EmptyTrie, <<>>, None),
            <<<<"k">>, <<"b">>>>,
            Some(WordData(None, None, None, Some(AffixData(0, "la", FALSE)), <<>>))),
        <<<<"k">>, <<"k", "s">>>>,
        Some(WordData(None, None, None, Some(AffixData(3, "gi", FALSE)), <<>>)))

InitSteps ==
    /\ phase = "input"
    /\ text \in {Concat(us) : us \in SeqsUpTo(StepUnits, MaxStepUnits)}
    /\ chunks = <<>>
    /\ trie \in {EmptyTrie, TrieOf(DictEntries), OddTrie}
    /\ other = EmptyTrie /\ nops = 0 /\ last = NoOp
    /\ run = NoRun /\ BuilderIdle /\ calls = <<>>
    /\ frame = NoFrame

FrameStep(f) ==
    /\ frame' = f
    /\ UNCHANGED <<phase, text, chunks, trie, other, nops, last, run, builder, bop, calls>>

\* The call: the text is normalized and the chunker made.
StepCall ==
    /\ frame.pc = "idle"
    /\ \E split_affixes \in BOOLEAN, spaces_as_punct \in BOOLEAN :
           FrameStep([NoFrame EXCEPT !.pc = "make_chunks",
                                     !.split_affixes = split_affixes,
                                     !.spaces_as_punct = spaces_as_punct,
                                     !.normalized = nfc(text)])

\* The test of the while loop of make_chunks and, when it holds, one
\* iteration.
StepMakeChunks ==
    /\ frame.pc = "make_chunks"
    /\ LET chars == frame.normalized IN
       IF frame.i >= Len(chars)
       THEN FrameStep([frame EXCEPT !.pc = "tokenize_chunks", !.i = 0])
       ELSE LET r == make_chunks_iteration(chars, BoString(chars), BytePositions(chars),
                                           frame.i, frame.chunks)
            IN FrameStep([frame EXCEPT !.chunks = r[1], !.i = r[2]])

\* The test of the while loop of tokenize_chunks and, when it holds, one
\* iteration; the call panics when the iteration slices out of range.
StepTokenizeChunks ==
    /\ frame.pc = "tokenize_chunks"
    /\ IF frame.i >= Len(frame.chunks)
       THEN FrameStep([frame EXCEPT !.pc = "split_spaces", !.i = 0])
       ELSE LET range == tokenize_chunks_range(trie, frame.chunks, frame.i) IN
            IF ~IsSome(ByteSlice(frame.normalized, range[1], range[2]))
            THEN FrameStep([frame EXCEPT !.pc = "panicked"])
            ELSE LET r == tokenize_chunks_iteration(trie, frame.chunks, frame.normalized,
                                                    frame.i, frame.tokens)
                 IN FrameStep([frame EXCEPT !.tokens = r[1], !.i = r[2]])

\* split_spaces_as_punct, when the option asks for it.
StepSplitSpaces ==
    /\ frame.pc = "split_spaces"
    /\ FrameStep([frame EXCEPT
           !.pc = IF frame.split_affixes THEN "split_affixed" ELSE "merge_dagdra",
           !.tokens = IF frame.spaces_as_punct THEN split_spaces_as_punct(@) ELSE @])

\* The test of the while loop of split_affixed and, when it holds, one
\* iteration.
StepSplitAffixed ==
    /\ frame.pc = "split_affixed"
    /\ IF frame.i >= Len(frame.tokens)
       THEN FrameStep([frame EXCEPT !.pc = "merge_dagdra", !.i = 0])
       ELSE LET r == split_affixed_iteration(frame.tokens, frame.i)
            IN FrameStep([frame EXCEPT !.tokens = r[1], !.i = r[2]])

\* The early return of merge_dagdra.
StepMergeDagdra ==
    /\ frame.pc = "merge_dagdra"
    /\ FrameStep([frame EXCEPT
           !.pc = IF Len(frame.tokens) <= 1 THEN "default_lemmas" ELSE "merge_dagdra_loop",
           !.i = 0])

\* The test of the while loop of merge_dagdra and, when it holds, one
\* iteration; tokens.len() - 1 panics on an empty list.
StepMergeDagdraLoop ==
    /\ frame.pc = "merge_dagdra_loop"
    /\ IF UsizeDec(Len(frame.tokens)) < 0
       THEN FrameStep([frame EXCEPT !.pc = "panicked"])
       ELSE IF frame.i >= Len(frame.tokens) - 1
       THEN FrameStep([frame EXCEPT !.pc = "default_lemmas"])
       ELSE LET r == merge_dagdra_iteration(frame.tokens, frame.i)
            IN FrameStep([frame EXCEPT !.tokens = r[1], !.i = r[2]])

\* generate_default_lemmas.
StepDefaultLemmas ==
    /\ frame.pc = "default_lemmas"
    /\ FrameStep([frame EXCEPT !.pc = "default_senses",
                               !.tokens = generate_default_lemmas(@)])

\* choose_default_senses and the return.
StepFinish ==
    /\ frame.pc = "default_senses"
    /\ FrameStep([frame EXCEPT !.pc = "returned",
                               !.tokens = choose_default_senses(@)])

NextSteps ==
    \/ StepCall
    \/ StepMakeChunks
    \/ StepTokenizeChunks
    \/ StepSplitSpaces
    \/ StepSplitAffixed
    \/ StepMergeDagdra
    \/ StepMergeDagdraLoop
    \/ StepDefaultLemmas
    \/ StepFinish

SpecSteps == InitSteps /\ [][NextSteps]_vars

\* The call keeps running: a step that can be taken is taken.
SpecStepsLive == SpecSteps /\ WF_vars(NextSteps)

\* ------------------------------------------------------------ the modifiers alone

\* The kinds of token the lists given to a modifier are made of: a word of
\* one syllable, a dagdra particle, a Text token that has no syllables (as
\* Token::with_text leaves it), a punctuation token, a noun with pos, freq
\* and lemma, and a dagdra particle with pos and freq.
ModKinds == {"word", "dagdra", "bare", "punct", "noun", "part"}

\* The token of a kind, placed at byte offset start.
ModToken(kind, start) ==
    IF kind = "noun"
    THEN [Token(<<"k", "s", "T">>, start, 9, "Text")
            EXCEPT !.syls = <<<<"k", "s">>>>, !.pos = Some("NOUN"), !.freq = Some(3),
                   !.lemma = Some(<<"k", "T">>)]
    ELSE IF kind = "part"
    THEN [Token(<<"p", "o", "T">>, start, 9, "Text")
            EXCEPT !.syls = <<<<"p", "o">>>>, !.pos = Some("PART"), !.freq = Some(9)]
    ELSE IF kind = "word"
    THEN [Token(<<"k", "T">>, start, 6, "Text") EXCEPT !.syls = <<<<"k">>>>]
    ELSE IF kind = "dagdra"
    THEN [Token(<<"b", "T">>, start, 6, "Text") EXCEPT !.syls = <<<<"b">>>>]
    ELSE IF kind = "bare"
    THEN Token(<<"T">>, start, 3, "Text")
    ELSE Token(<<"/">>, start, 3, "Punct")

RECURSIVE ModList(_, _)
\* The token list of a list of kinds, the tokens laid end to end from start.
ModList(kinds, start) ==
    IF kinds = <<>> THEN <<>>
    ELSE LET tk == ModToken(Head(kinds), start)
         IN <<tk>> \o ModList(Tail(kinds), start + tk.len)

InitMod == ChunkerIdle /\ TrieIdle /\ TokIdle

\* merge_dagdra(&mut tokens) on a token list.
MergeDagdra ==
    /\ phase = "input"
    /\ \E kinds \in SeqsUpTo(ModKinds, MaxTokens) :
          run' = [NoRun EXCEPT !.call = "merge_dagdra",
                               !.spaced = ModList(kinds, 0),
                               !.tokens = merge_dagdra(ModList(kinds, 0))]
    /\ phase' = "done"
    /\ UNCHANGED <<text, chunks, trie, other, nops, last, builder, bop, calls, frame>>

\* merge_dagdra(&mut tokens) once more, on the list the first call left.
MergeDagdraAgain ==
    /\ phase = "done"
    /\ run.call = "merge_dagdra"
    /\ run' = [run EXCEPT !.spaced = run.tokens, !.tokens = merge_dagdra(run.tokens)]
    /\ phase' = "again"
    /\ UNCHANGED <<text, chunks, trie, other, nops, last, builder, bop, calls, frame>>

\* The kinds of token the lists given to split_affixed are made of: a
\* two-syllable word with an affixation of one character and an affixed
\* sense; the same with one syllable; with a second sense that is not
\* affixed; with no senses; with an affixation longer than the last
\* syllable; with an affixation as long as the last syllable; and a word
\* without affixation.
SplitKinds == {"affixed", "single", "unaffixed", "nosenses", "long", "whole", "plain"}

\* The token of a kind, placed at byte offset start.
SplitToken(kind, start) ==
    LET two == [Token(<<"k", "T", "k", "s", "T">>, start, 15, "Text")
                  EXCEPT !.syls = <<<<"k">>, <<"k", "s">>>>, !.pos = Some("ADJ"),
                         !.lemma = Some(<<"k", "T", "k">>), !.freq = Some(4),
                         !.senses = <<Sense(Some("ADJ"), Some(4), TRUE)>>,
                         !.affixation = Some([len |-> 1, aa |-> FALSE])]
    IN CASE kind = "affixed" -> two
         [] kind = "single" ->
                [two EXCEPT !.text = <<"k", "s", "T">>, !.len = 9,
                            !.syls = <<<<"k", "s">>>>]
         [] kind = "unaffixed" ->
                [two EXCEPT !.senses = Append(@, Sense(Some("NOUN"), None, FALSE))]
         [] kind = "nosenses" -> [two EXCEPT !.senses = <<>>]
         [] kind = "long" -> [two EXCEPT !.affixation = Some([len |-> 3, aa |-> FALSE])]
         [] kind = "whole" -> [two EXCEPT !.affixation = Some([len |-> 2, aa |-> FALSE])]
         [] OTHER -> [two EXCEPT !.affixation = None]

RECURSIVE SplitList(_, _)
\* The token list of a list of kinds, the tokens laid end to end from start.
SplitList(kinds, start) ==
    IF kinds = <<>> THEN <<>>
    ELSE LET tk == SplitToken(Head(kinds), start)
         IN <<tk>> \o SplitList(Tail(kinds), start + tk.len)

\* split_affixed(&mut tokens) on a token list.
SplitAffixed ==
    /\ phase = "input"
    /\ \E kinds \in SeqsUpTo(SplitKinds, MaxTokens) :
          run' = [NoRun EXCEPT !.call = "split_affixed",
                               !.spaced = SplitList(kinds, 0),
                               !.tokens = split_affixed(SplitList(kinds, 0))]
    /\ phase' = "done"
    /\ UNCHANGED <<text, chunks, trie, other, nops, last, builder, bop, calls, frame>>

\* The kinds of token the lists given to generate_default_lemmas are made
\* of: a word and a noun (a lemma absent and present), a Text token without
\* syllables, the host of a split, without lemma, and a token that is both
\* affix host and affix.
LemmaKinds == {"word", "noun", "bare", "host", "both"}

\* The token of a kind, placed at byte offset start.
LemmaToken(kind, start) ==
    LET host == [Token(<<"k", "T", "k">>, start, 9, "Text")
                   EXCEPT !.syls = <<<<"k">>, <<"k">>>>, !.is_affix_host = TRUE]
    IN CASE kind = "host" -> host
         [] kind = "both" -> [host EXCEPT !.is_affix = TRUE]
         [] OTHER -> ModToken(kind, start)

RECURSIVE LemmaList(_, _)
\* The token list of a list of kinds, the tokens laid end to end from start.
LemmaList(kinds, start) ==
    IF kinds = <<>> THEN <<>>
    ELSE LET tk == LemmaToken(Head(kinds), start)
         IN <<tk>> \o LemmaList(Tail(kinds), start + tk.len)

\* generate_default_lemmas(&mut tokens) on a token list.
GenerateDefaultLemmas ==
    /\ phase = "input"
    /\ \E kinds \in SeqsUpTo(LemmaKinds, MaxTokens) :
          run' = [NoRun EXCEPT !.call = "generate_default_lemmas",
                               !.spaced = LemmaList(kinds, 0),
                               !.tokens = generate_default_lemmas(LemmaList(kinds, 0))]
    /\ phase' = "done"
    /\ UNCHANGED <<text, chunks, trie, other, nops, last, builder, bop, calls, frame>>

NextMod == MergeDagdra \/ MergeDagdraAgain \/ SplitAffixed \/ GenerateDefaultLemmas

SpecMod == InitMod /\ [][NextMod]_vars

\* ------------------------------------------------------------ the builder alone

\* Number of lines in a TSV content and of calls on one builder.
MaxLines == 2
MaxBuilderOps == 3

\* What data/roots.txt may list among the syllables of the model.
BuilderRoots == {<<"k">>}

\* The forms of the dictionary lines: a syllable with the suffix SA, the
\* same with a final A-CHUNG, a two-syllable word, a bare consonant
\* (affixable only as a root) and a syllable that ends with a particle.
\* The pos column tells the lines apart.
BuilderLines ==
    { TsvLine(<<"k", "s">>, Some("NOUN"), Some(5)),
      TsvLine(<<"k", "s", AA>>, Some("ADJ"), Some(2)),
      TsvLine(<<"b", TSEK, "k", "s">>, Some("ADV"), Some(1)),
      TsvLine(<<"k">>, None, Some(7)),
      TsvLine(<<"k", AA, "i">>, Some("PART"), None) }

\* The words given to deactivate_inflected_word: the forms of the lines and
\* an affixed form.
BuilderForms == {l.form : l \in BuilderLines} \cup {<<"k", "s", "r">>}

InitBuilder ==
    /\ ChunkerIdle /\ TrieIdle /\ run = NoRun /\ CallsIdle
    /\ bop = NoBuilderOp
    /\ \E roots \in SUBSET BuilderRoots :
           builder \in {TrieBuilder_new(roots), TrieBuilder_with_inflection(roots)}

BuilderStep(tb, op) ==
    /\ bop.n < MaxBuilderOps
    /\ builder' = tb
    /\ bop' = [op EXCEPT !.n = bop.n + 1]
    /\ UNCHANGED <<phase, text, chunks, trie, other, nops, last, run, calls, frame>>

LoadTsv ==
    \E lines \in SeqsUpTo(BuilderLines, MaxLines) :
        BuilderStep(load_tsv(builder, lines),
                    [NoBuilderOp EXCEPT !.op = "load_tsv", !.lines = lines])

SetInflection ==
    \E enable \in BOOLEAN :
        BuilderStep(set_inflection(builder, enable),
                    [NoBuilderOp EXCEPT !.op = "set_inflection"])

DeactivateInflectedWord ==
    \E word \in BuilderForms :
        BuilderStep(deactivate_inflected_word(builder, word),
                    [NoBuilderOp EXCEPT !.op = "deactivate_inflected_word",
                                        !.word = word])

NextBuilder == LoadTsv \/ SetInflection \/ DeactivateInflectedWord

SpecBuilder == InitBuilder /\ [][NextBuilder]_vars

\* ------------------------------------------------------------ sentences alone

\* Number of tokens of free kind in a list given to sentence_tokenize.
MaxSentTokens == 4

\* Number of nouns in the run that may precede them: with two more tokens
\* the segment is longer than the threshold of refine_long_sentences.
LongRun == 30

\* The kinds of token: a noun, a verb, an ending particle, a clause
\* boundary, a punctuation token, and a punctuation token that carries the
\* pos and syllable of an ending particle.
SentKinds == {"noun", "verb", "part", "clause", "punct", "odd"}

\* make_token(text, chunk_type, pos) of the tests of sentence.rs.
SentToken(kind) ==
    LET make_token(txt, chunk_type, pos, syls) ==
            [Token(txt, 0, ByteLen(txt), chunk_type) EXCEPT !.pos = pos, !.syls = syls]
    IN CASE kind = "noun" -> make_token(<<"k", "T">>, "Text", Some("NOUN"), <<<<"k">>>>)
         [] kind = "verb" -> make_token(<<"k", "s", "T">>, "Text", Some("VERB"),
                                        <<<<"k", "s">>>>)
         [] kind = "part" -> make_token(<<"s", "o", "T">>, "Text", Some("PART"),
                                        <<<<"s", "o">>>>)
         [] kind = "clause" -> make_token(<<"n", "s", "T">>, "Text", None,
                                          <<<<"n", "s">>>>)
         [] kind = "punct" -> make_token(<<"/">>, "Punct", None, <<>>)
         [] OTHER -> make_token(<<"s", "o", "T">>, "Punct", Some("PART"), <<<<"s", "o">>>>)

\* The token list of a list of kinds after a run of nouns.
SentList(nouns, kinds) ==
    [k \in 1..nouns |-> SentToken("noun")] \o [k \in 1..Len(kinds) |-> SentToken(kinds[k])]

InitSent == ChunkerIdle /\ TrieIdle /\ TokIdle

\* sentence_tokenize(&tokens) on a token list.
SentenceTokenize ==
    /\ phase = "input"
    /\ \E nouns \in {0, LongRun}, kinds \in SeqsUpTo(SentKinds, MaxSentTokens) :
          run' = [NoRun EXCEPT !.call = "sentence_tokenize",
                               !.spaced = SentList(nouns, kinds),
                               !.tokens = sentence_tokenize(SentList(nouns, kinds))]
    /\ phase' = "done"
    /\ UNCHANGED <<text, chunks, trie, other, nops, last, builder, bop, calls, frame>>

NextSent == SentenceTokenize

SpecSent == InitSent /\ [][NextSent]_vars

\* ------------------------------------------------------------ characters alone

\* Number of characters in a string given to BoString::new.
MaxCharText == 2

CharAlphabet ==
    {"sp", "tab", "nbsp", "ogham", "ideo", "k", "T", "/", "1", "a", "C", "emoji"}

InitChar ==
    /\ phase = "input"
    /\ text \in SeqsUpTo(CharAlphabet, MaxCharText)
    /\ chunks = <<>>
    /\ TrieIdle
    /\ TokIdle

\* BoString::new(text): get_char_category of every character.
BoStringNew ==
    /\ phase = "input"
    /\ run' = [NoRun EXCEPT !.call = "BoString::new", !.tokens = BoString(text)]
    /\ phase' = "done"
    /\ UNCHANGED <<text, chunks, trie, other, nops, last, builder, bop, calls, frame>>

NextChar == BoStringNew

SpecChar == InitChar /\ [][NextChar]_vars

\* ------------------------------------------------------------ syllables alone

\* Number of characters in a syllable given to SylComponents.
MaxSylLen == 3

SylAlphabet == {"k", "s", AA, "i", "ng"}

\* The root lists: none, a consonant, and a root that ends in a particle.
SylRoots == {{}, {<<"k">>}, {<<"k", AA, "i">>}}

InitSyl ==
    /\ phase = "input"
    /\ text \in SeqsUpTo(SylAlphabet, MaxSylLen)
    /\ chunks = <<>>
    /\ TrieIdle
    /\ run = NoRun
    /\ builder \in {TrieBuilder_new(roots) : roots \in SylRoots}
    /\ bop = NoBuilderOp
    /\ CallsIdle

\* sc.get_all_affixed(syl)
GetAllAffixed ==
    /\ phase = "input"
    /\ run' = [NoRun EXCEPT !.call = "get_all_affixed",
                            !.tokens = get_all_affixed(builder.syl_components, text)]
    /\ phase' = "done"
    /\ UNCHANGED <<text, chunks, trie, other, nops, last, builder, bop, calls, frame>>

\* sc.is_thame(syl)
IsThame ==
    /\ phase = "input"
    /\ run' = [NoRun EXCEPT !.call = "is_thame",
                            !.tokens = <<is_thame(builder.syl_components, text)>>]
    /\ phase' = "done"
    /\ UNCHANGED <<text, chunks, trie, other, nops, last, builder, bop, calls, frame>>

NextSyl == GetAllAffixed \/ IsThame

SpecSyl == InitSyl /\ [][NextSyl]_vars

\* ------------------------------------------------------------ the trie alone

\* The words given to the trie operations, as syllable lists: the empty
\* list, a word, an extension of it and a sibling.
TrieWords == {<<>>, <<<<"k">>>>, <<<<"k">>, <<"b">>>>, <<<<"b">>>>}

\* The strings given to add_word and add_word_with_sense: the words joined
\* by tsek, with and without a trailing tsek (the empty word gives "" and a
\* lone tsek).
TrieWordStrings ==
    {JoinSyls(w, <<TSEK>>) : w \in TrieWords} \cup
    {JoinSyls(w, <<TSEK>>) \o <<TSEK>> : w \in TrieWords}

D1 == WordData(Some("NOUN"), None, Some(1), None, <<>>)
D2 == WordData(None, Some(<<"k", "T">>), Some(2), None, <<>>)
TrieDatas == {D1, D2}
TrieDataOpts == {None} \cup {Some(d) : d \in TrieDatas}
S1 == Sense(Some("VERB"), Some(3), FALSE)
S2 == Sense(Some("ADJ"), None, FALSE)

\* The data and the sense load_tsv makes of one line.
TrieEntries == {<<D1, S1>>, <<D2, S2>>}

SensesOf(t, syls) ==
    IF syls \in DOMAIN t.root /\ IsSome(t.root[syls].data)
    THEN Unwrap(t.root[syls].data).senses ELSE <<>>

InitTrie == ChunkerIdle /\ TrieIdle /\ TokIdle

Op(name, w, data, ret) ==
    [op |-> name, w |-> w, data |-> data, ret |-> ret,
     had_data |-> w \in DOMAIN trie.root /\ IsSome(trie.root[w].data),
     sense |-> None]

TrieStep(t, o, l) ==
    /\ nops < MaxTrieOps
    /\ trie' = t
    /\ other' = o
    /\ last' = l
    /\ nops' = nops + 1
    /\ UNCHANGED <<phase, text, chunks, run, builder, bop, calls, frame>>

TrieAdd ==
    \E w \in TrieWords, d \in TrieDataOpts :
        TrieStep(add(trie, w, d), other, Op("add", w, d, TRUE))

TrieAddWord ==
    \E str \in TrieWordStrings, d \in TrieDataOpts :
        TrieStep(add_word(trie, str, d), other, Op("add_word", SplitSyls(str), d, TRUE))

TrieAddWordWithSense ==
    \E str \in TrieWordStrings, e \in TrieEntries :
        /\ Len(SensesOf(trie, SplitSyls(str))) < MaxSenses
        /\ TrieStep(add_word_with_sense(trie, str, e[1], e[2]), other,
                    [Op("add_word_with_sense", SplitSyls(str), Some(e[1]), TRUE)
                       EXCEPT !.sense = Some(e[2])])

TrieAddData ==
    \E w \in TrieWords :
        /\ Len(SensesOf(trie, w)) < MaxSenses
        /\ LET r == add_data(trie, w, S1)
           IN TrieStep(r[1], other, Op("add_data", w, None, r[2]))

TrieDeactivate ==
    \E w \in TrieWords :
        LET r == deactivate(trie, w)
        IN TrieStep(r[1], other, Op("deactivate", w, None, r[2]))

TrieMerge ==
    TrieStep(merge(trie, other), other, Op("merge", <<>>, None, TRUE))

\* The argument of merge is a Trie too, made by the same operations.
OtherAdd ==
    \E w \in TrieWords, d \in TrieDataOpts :
        TrieStep(trie, add(other, w, d), Op("other", <<>>, None, TRUE))

OtherDeactivate ==
    \E w \in TrieWords :
        TrieStep(trie, deactivate(other, w)[1], Op("other", <<>>, None, TRUE))

NextTrie ==
    \/ TrieAdd
    \/ TrieAddWord
    \/ TrieAddWordWithSense
    \/ TrieAddData
    \/ TrieDeactivate
    \/ TrieMerge
    \/ OtherAdd
    \/ OtherDeactivate

SpecTrie == InitTrie /\ [][NextTrie]_vars

\* ------------------------------------------------------------ chunker claims

\* The bytes of `s` the chunks cover, in order; None when a range is no slice.
ChunkBytes(s, cs) ==
    LET sl(i) == ByteSlice(s, cs[i].start, cs[i].start + cs[i].len)
    IN IF \A i \in 1..Len(cs) : IsSome(sl(i))
       THEN Some(Concat([i \in 1..Len(cs) |-> Unwrap(sl(i))]))
       ELSE None

\* C1: for every input, the byte ranges of the chunks of make_chunks,
\* concatenated in order, are exactly the bytes of the input (also when the
\* input begins with transparent characters).
C1_ChunksReproduceInput ==
    phase = "done" => ChunkBytes(text, chunks) = Some(text)

\* C2: every chunk has len > 0, chunk starts strictly increase, and each
\* chunk after the first starts where the previous one ends.
C2_ChunksContiguous ==
    phase = "done" =>
        /\ \A i \in 1..Len(chunks) : chunks[i].len > 0
        /\ \A i \in 2..Len(chunks) :
              /\ chunks[i].start = chunks[i - 1].start + chunks[i - 1].len
              /\ chunks[i].start > chunks[i - 1].start

\* C2's case: a one-character Other chunk that a top-level transparent
\* character was attached to, followed by another chunk.
C2_Witness ==
    /\ phase = "done"
    /\ \E i \in 1..(Len(chunks) - 1) :
          chunks[i].chunk_type = "Other" /\ chunks[i].len > Utf8Len("emoji")

\* ------------------------------------------------------------ trie claims

Leaves(t) == {p \in DOMAIN t.root : t.root[p].is_leaf}

\* C5: after any sequence of add, add_word, add_word_with_sense, add_data,
\* deactivate and merge from an empty trie, Trie::len() is the number of
\* nodes with is_leaf reachable from the root, and it never underflows.
C5_WordCountIsLeafCount ==
    /\ TrieLen(trie) = Cardinality(Leaves(trie))
    /\ TrieLen(other) = Cardinality(Leaves(other))
    /\ TrieLen(trie) >= 0 /\ TrieLen(other) >= 0

\* C5's case: deactivate has just returned true for a word that keeps its
\* data, and another word is still counted.
C5_Witness ==
    /\ last.op = "deactivate" /\ last.ret
    /\ ~trie.root[last.w].is_leaf /\ IsSome(trie.root[last.w].data)
    /\ TrieLen(trie) >= 1

\* C6: right after add(w, Some(d)), has_word(w) holds and get_word_data(w)
\* has d's pos and freq, whatever data was stored there before; and has_word
\* of every other word (the proper prefixes and the extensions of w among
\* them) is what it was before, so false for a word that was never added.
C6_AddThenLookup ==
    [][(nops' = nops + 1 /\ last'.op = "add" /\ IsSome(last'.data)) =>
        LET w == last'.w
            d == Unwrap(last'.data)
            got == get_word_data(trie', w)
        IN /\ has_word(trie', w)
           /\ IsSome(got)
           /\ Unwrap(got).pos = d.pos
           /\ Unwrap(got).freq = d.freq
           /\ \A v \in TrieWords \ {w} : has_word(trie', v) = has_word(trie, v)]_vars

\* C6's case: add(w, Some(d)) has just overwritten other data of a word whose
\* proper prefix is a word and whose sibling is not.
C6_Witness ==
    /\ last.op = "add" /\ last.data = Some(D2) /\ last.had_data
    /\ last.w = <<<<"k">>, <<"b">>>>
    /\ has_word(trie, <<<<"k">>>>)
    /\ ~has_word(trie, <<<<"b">>>>)


\* The string of a word: its syllables, each followed by a tsek.
WordString(w) == IF w = <<>> THEN <<>> ELSE JoinSyls(w, <<TSEK>>) \o <<TSEK>>

\* The syllables of the first token longest-match makes of a word's string.
FirstMatch(t, w) ==
    tokenize_chunks(t, make_chunks(WordString(w)), WordString(w))[1].syls

\* w is a proper prefix of v.
ProperPrefix(w, v) == Len(w) < Len(v) /\ SubSeq(v, 1, Len(w)) = w

\* C12: deactivate(w) on a word returns true, makes has_word(w) false, takes
\* one from the word count and keeps every node, so the other words, the
\* longer ones with prefix w among them, are found by has_word and by the
\* longest match as before; on anything else it returns false and leaves
\* the trie and its count as they are.
C12_Deactivate ==
    [][(nops' = nops + 1 /\ last'.op = "deactivate") =>
        LET w == last'.w IN
        IF has_word(trie, w)
        THEN /\ last'.ret
             /\ ~has_word(trie', w)
             /\ TrieLen(trie') = TrieLen(trie) - 1
             /\ DOMAIN trie'.root = DOMAIN trie.root
             /\ \A v \in TrieWords \ {w} :
                   /\ has_word(trie', v) = has_word(trie, v)
                   /\ (has_word(trie, v) /\ ProperPrefix(w, v)) =>
                         FirstMatch(trie', v) = v
        ELSE ~last'.ret /\ trie' = trie]_vars

\* C12's case: deactivate has just returned true for a word that is the
\* prefix of a longer word, which is still found.
C12_Witness ==
    /\ last.op = "deactivate" /\ last.ret
    /\ last.w = <<<<"k">>>>
    /\ has_word(trie, <<<<"k">>, <<"b">>>>)
    /\ ~has_word(trie, <<<<"k">>>>)
    /\ FirstMatch(trie, <<<<"k">>, <<"b">>>>) = <<<<"k">>, <<"b">>>>


\* C13: after self.merge(other) every word of other and every word self had
\* is a word of self; the word count has grown by the number of words of
\* other that were not words of self; and for each of those self holds
\* other's data.
C13_Merge ==
    [][(nops' = nops + 1 /\ last'.op = "merge") =>
        LET new == Leaves(other) \ Leaves(trie) IN
        /\ \A w \in Leaves(other) \cup Leaves(trie) : has_word(trie', w)
        /\ TrieLen(trie') = TrieLen(trie) + Cardinality(new)
        /\ \A w \in new : get_word_data(trie', w) = get_word_data(other, w)]_vars


\* x if it is Some, else y.
OrElse(x, y) == IF IsSome(x) THEN x ELSE y

\* C14: add_word_with_sense on a form counts the word once, appends the
\* sense after the senses stored for it, and fills pos, lemma and freq only
\* where the stored value is absent; stored values are never overwritten.
C14_AddWordWithSense ==
    [][(nops' = nops + 1 /\ last'.op = "add_word_with_sense" /\ last'.w # <<>>) =>
        LET w == last'.w
            d == Unwrap(last'.data)
            sn == Unwrap(last'.sense)
            new == Unwrap(trie'.root[w].data)
            old == Unwrap(trie.root[w].data)
        IN /\ has_word(trie', w)
           /\ TrieLen(trie') = TrieLen(trie) + (IF has_word(trie, w) THEN 0 ELSE 1)
           /\ IsSome(trie'.root[w].data)
           /\ IF last'.had_data
              THEN /\ new.senses = Append(old.senses, sn)
                   /\ new.pos = OrElse(old.pos, d.pos)
                   /\ new.lemma = OrElse(old.lemma, d.lemma)
                   /\ new.freq = OrElse(old.freq, d.freq)
              ELSE new = [d EXCEPT !.senses = <<sn>>]]_vars

\* C14's case: the form has been loaded a second time, with another sense
\* and other data: the stored pos and freq are kept, the absent lemma is
\* filled, and the two senses are in load order.
C14_Witness ==
    /\ last.op = "add_word_with_sense" /\ last.had_data
    /\ last.data = Some(D2) /\ last.sense = Some(S2)
    /\ IsSome(trie.root[last.w].data)
    /\ Unwrap(trie.root[last.w].data).pos = D1.pos
    /\ Unwrap(trie.root[last.w].data).freq = D1.freq
    /\ Unwrap(trie.root[last.w].data).lemma = D2.lemma
    /\ Unwrap(trie.root[last.w].data).senses = <<S1, S2>>
    /\ TrieLen(trie) = 1


\* ------------------------------------------------------------ tokenizer claims

TokenTexts(tokens) == Concat([i \in 1..Len(tokens) |-> tokens[i].text])

\* C3: every token a tokenizer call returns has, as its text, the bytes of
\* the NFC-normalized input from token.start to token.start + token.len;
\* split hosts and particles, merged tokens and the pieces of the
\* spaces_as_punct split included.
C3_TokenTextIsInputSlice ==
    run.call # "none" =>
        \A i \in 1..Len(run.tokens) :
            ByteSlice(run.normalized, run.tokens[i].start,
                      run.tokens[i].start + run.tokens[i].len)
                = Some(run.tokens[i].text)

\* C4: the texts of the tokens tokenize returns, concatenated in order, are
\* the NFC-normalized input.
C4_TokenTextsConcatenateToInput ==
    (run.call = "tokenize" /\ run.split_affixes /\ ~run.spaces_as_punct) =>
        TokenTexts(run.tokens) = run.normalized

\* The index (1-based) of the chunk a raw token starts at.
ChunkAt(tk) == CHOOSE i \in 1..Len(chunks) : chunks[i].start = tk.start

RECURSIVE SylRun(_)
\* The syllables of the run of syllable chunks that starts at chunk i.
SylRun(i) ==
    IF i > Len(chunks) \/ ~IsSome(chunks[i].syl) THEN <<>>
    ELSE <<Unwrap(chunks[i].syl)>> \o SylRun(i + 1)

\* The lengths of the dictionary words that are prefixes of the run at i.
MatchLens(i) ==
    {m \in 1..Len(SylRun(i)) : has_word(trie, SubSeq(SylRun(i), 1, m))}

MaxOf(S) == CHOOSE m \in S : \A n \in S : n <= m

\* The raw token k starts at a syllable chunk.
AtSyllable(k) ==
    /\ \E i \in 1..Len(chunks) : chunks[i].start = run.raw[k].start
    /\ IsSome(chunks[ChunkAt(run.raw[k])].syl)

\* The raw token k covers the n chunks from chunk i on, and the next raw
\* token, if the input goes on, starts at chunk i + n.
Covers(k, i, n) ==
    /\ run.raw[k].start = chunks[i].start
    /\ run.raw[k].start + run.raw[k].len = chunks[i + n - 1].start + chunks[i + n - 1].len
    /\ i + n <= Len(chunks) =>
          k < Len(run.raw) /\ run.raw[k + 1].start = chunks[i + n].start
    /\ i + n > Len(chunks) => k = Len(run.raw)

\* C7: the raw token emitted at a syllable chunk spans the longest dictionary
\* word that is a prefix of the run of syllable chunks starting there, and
\* has exactly that word's syllables.
C7_LongestMatch ==
    run.call = "tokenize" =>
        \A k \in 1..Len(run.raw) :
            AtSyllable(k) =>
                LET i == ChunkAt(run.raw[k]) IN
                MatchLens(i) # {} =>
                    /\ run.raw[k].syls = SubSeq(SylRun(i), 1, MaxOf(MatchLens(i)))
                    /\ Covers(k, i, MaxOf(MatchLens(i)))

\* The dictionary holds a word and a longer word that extends it, the input
\* begins with the longer one, and the first raw token has its three
\* syllables.
C7_Witness ==
    /\ run.call = "tokenize"
    /\ has_word(trie, <<<<"k">>>>)
    /\ has_word(trie, <<<<"k">>, <<"k">>, <<"k">>>>)
    /\ Len(run.raw) >= 1
    /\ run.raw[1].syls = <<<<"k">>, <<"k">>, <<"k">>>>

\* C8: when no dictionary word matches at a syllable chunk, one Text token
\* covering that chunk alone is emitted, with pos NO_POS and the chunk's
\* syllable, and the scan resumes at the next chunk.
C8_UnknownSyllable ==
    run.call = "tokenize" =>
        \A k \in 1..Len(run.raw) :
            AtSyllable(k) =>
                LET i == ChunkAt(run.raw[k]) IN
                MatchLens(i) = {} =>
                    /\ run.raw[k].chunk_type = "Text"
                    /\ run.raw[k].pos = Some("NO_POS")
                    /\ run.raw[k].syls = <<Unwrap(chunks[i].syl)>>
                    /\ Covers(k, i, 1)

\* The walk went through two non-leaf nodes and failed at the third
\* syllable; the first syllable became an unknown token and the second one
\* was examined again and begins the next word.
C8_Witness ==
    /\ run.call = "tokenize"
    /\ <<<<"k">>, <<"k">>>> \in DOMAIN trie.root
    /\ ~has_word(trie, <<<<"k">>>>)
    /\ Len(run.raw) = 2
    /\ run.raw[1].pos = Some("NO_POS")
    /\ run.raw[1].syls = <<<<"k">>>>
    /\ run.raw[2].syls = <<<<"k">>, <<"k", "s">>>>
    /\ run.raw[2].pos = Some("ADJ")

\* The position in the list split_affixed leaves of what token i of the list
\* it was given became.
SplitIndex(i) == i + Cardinality({k \in 1..(i - 1) : should_split(run.spaced[k])})

\* C9: when split_affixed replaces a token by a host and a particle, the two
\* texts concatenate to the token's text, the host starts where the token
\* started and the particle ends where the token ended.
C9_AffixSplitRoundTrip ==
    (run.call = "tokenize" /\ run.split_affixes) =>
        \A i \in 1..Len(run.spaced) :
            should_split(run.spaced[i]) =>
                LET original == run.spaced[i]
                    host == run.split[SplitIndex(i)]
                    particle == run.split[SplitIndex(i) + 1]
                IN /\ host.text \o particle.text = original.text
                   /\ host.start = original.start
                   /\ particle.start + particle.len = original.start + original.len

\* C10 (first half): in the list tokenize returns, a token with
\* is_affix_host is followed by a token with is_affix.
C10_HostThenAffix ==
    (run.call = "tokenize" /\ run.split_affixes /\ ~run.spaces_as_punct) =>
        \A i \in 1..Len(run.tokens) :
            run.tokens[i].is_affix_host =>
                i < Len(run.tokens) /\ run.tokens[i + 1].is_affix

\* C10: in the list tokenize returns, a token with is_affix_host is followed
\* by a token with is_affix, and their texts concatenate to the text of the
\* token that was split.
C10_HostFollowedByAffix ==
    /\ C10_HostThenAffix
    /\ (run.call = "tokenize" /\ run.split_affixes /\ ~run.spaces_as_punct) =>
          \A i \in 1..(Len(run.tokens) - 1) :
              run.tokens[i].is_affix_host =>
                  \E j \in 1..Len(run.spaced) :
                      /\ run.spaced[j].start = run.tokens[i].start
                      /\ run.tokens[i].text \o run.tokens[i + 1].text = run.spaced[j].text

\* ------------------------------------------------------------ modifier claims

\* C11: merge_dagdra applied to the list it left leaves it as it is.
C11_MergeDagdraIdempotent ==
    (phase = "again" /\ run.call = "merge_dagdra") => run.tokens = run.spaced

\* ------------------------------------------------------------ claims about the builder

\* The form the particle AFFIXES[i] makes of the word syls: the last
\* syllable, less a final A-CHUNG, followed by the particle.
AffixedForm(syls, i) ==
    LET last_syl == syls[Len(syls)]
        aa == EndsWith(last_syl, AA) /\ Len(last_syl) > 1
        base == IF aa THEN SubSeq(last_syl, 1, Len(last_syl) - 1) ELSE last_syl
    IN Append(SubSeq(syls, 1, Len(syls) - 1), base \o AFFIXES[i].affix)

\* The affixation the particle AFFIXES[i] gives the word syls.
AffixationOf(syls, i) ==
    LET last_syl == syls[Len(syls)]
    IN AffixData(AFFIXES[i].len, AFFIXES[i].affix_type,
                 EndsWith(last_syl, AA) /\ Len(last_syl) > 1)

\* What load_tsv with inflection owes the line: the base form and the
\* eleven affixed forms are words of the trie t, and each affixed form's
\* data carries the affixation of its particle and a sense marked affixed.
LineInflected(t, roots, line) ==
    LET syls == SplitSyls(line.form) IN
    (syls # <<>> /\ is_affixable(roots, syls[Len(syls)])) =>
        /\ has_word(t, syls)
        /\ \A i \in 1..Len(AFFIXES) :
               LET d == get_word_data(t, AffixedForm(syls, i)) IN
               /\ has_word(t, AffixedForm(syls, i))
               /\ IsSome(d)
               /\ Unwrap(d).affixation = Some(AffixationOf(syls, i))
               /\ \E k \in 1..Len(Unwrap(d).senses) : Unwrap(d).senses[k].affixed

\* C15: when a builder made by with_inflection loads a dictionary, every
\* line whose last syllable is affixable has its base form and its eleven
\* affixed forms in the trie, each affixed form with the affixation of its
\* particle and a sense marked affixed, whatever the other lines are and
\* whatever their order.
C15_InflectedFormsLoaded ==
    [][(bop'.op = "load_tsv" /\ bop.n = 0 /\ builder.inflect) =>
           \A i \in 1..Len(bop'.lines) :
               LineInflected(builder'.trie, builder.syl_components, bop'.lines[i])]_vars

\* The affixed form AFFIXES[i] of the word syls is in the trie t as an
\* inflection: a word whose data carries an affixation.
InflectionOf(t, syls, i) ==
    /\ has_word(t, AffixedForm(syls, i))
    /\ IsSome(get_word_data(t, AffixedForm(syls, i)))
    /\ IsSome(Unwrap(get_word_data(t, AffixedForm(syls, i))).affixation)

\* C16: deactivate_inflected_word leaves neither the base form nor any of
\* the affixed forms loaded as its inflections findable, whatever
\* set_inflection calls were made between loading and deactivating.
C16_DeactivateInflectedWord ==
    [][bop'.op = "deactivate_inflected_word" =>
           LET syls == SplitSyls(bop'.word) IN
           /\ ~has_word(builder'.trie, syls)
           /\ is_affixable(builder.syl_components, syls[Len(syls)]) =>
                  \A i \in 1..Len(AFFIXES) :
                      InflectionOf(builder.trie, syls, i) =>
                          ~has_word(builder'.trie, AffixedForm(syls, i))]_vars

\* After load_tsv on a builder that inflects, deactivate_inflected_word(w)
\* leaves every head word of the loaded lines other than w a word of the
\* trie.
HeadWordsStay ==
    (bop.op = "load_tsv" /\ bop'.op = "deactivate_inflected_word" /\ builder.inflect) =>
        \A k \in 1..Len(bop.lines) :
            LET v == bop.lines[k].form IN
            (v # bop'.word /\ has_word(builder.trie, SplitSyls(v))) =>
                has_word(builder'.trie, SplitSyls(v))

\* C30: with inflection enabled, deactivate_inflected_word(w) deactivates no
\* word that was loaded as a dictionary entry of its own other than w, also
\* when that word is spelled like an affixed form of w.
C30_HeadWordsStay == [][HeadWordsStay]_vars

\* ------------------------------------------------------------ claims about whitespace

\* Space, tab, carriage return and line feed.
Whitespace == {"sp", "tab", "cr", "nl"}

\* The length of the longest prefix of the non-empty string s whose
\* characters are all whitespace (ws) or all not (~ws).
PrefixRun(s, ws) ==
    CHOOSE n \in 1..Len(s) :
        /\ \A i \in 1..n : (s[i] \in Whitespace) = ws
        /\ n = Len(s) \/ (s[n + 1] \in Whitespace) # ws

RECURSIVE Segments(_, _)
\* The maximal whitespace runs of s and the segments between them, in
\* order, each with its byte offset from `at`.
Segments(s, at) ==
    IF s = <<>> THEN <<>>
    ELSE LET ws == s[1] \in Whitespace
             n == PrefixRun(s, ws)
             seg == SubSeq(s, 1, n)
         IN << [text |-> seg, start |-> at, len |-> ByteLen(seg),
                chunk_type |-> IF ws THEN "Punct" ELSE "Text"] >>
            \o Segments(SubSeq(s, n + 1, Len(s)), at + ByteLen(seg))

\* The text, place and type of a token.
Extent(tk) ==
    [text |-> tk.text, start |-> tk.start, len |-> tk.len, chunk_type |-> tk.chunk_type]

RECURSIVE SpacesSplit(_)
\* The tokens of a list, each Text token replaced by its segments.
SpacesSplit(tokens) ==
    IF tokens = <<>> THEN <<>>
    ELSE (IF Head(tokens).chunk_type = "Text"
          THEN Segments(Head(tokens).text, Head(tokens).start)
          ELSE <<Extent(Head(tokens))>>)
         \o SpacesSplit(Tail(tokens))

\* C17: with spaces_as_punct, every maximal whitespace run inside a Text
\* token is a Punct token of its own, the segments around it are Text
\* tokens, and the parts are contiguous and spell the token's text; a run of
\* tabs counts as a run with a space does.
C17_SpacesAsPunct ==
    (run.call = "tokenize" /\ run.spaces_as_punct) =>
        [i \in 1..Len(run.spaced) |-> Extent(run.spaced[i])] = SpacesSplit(run.raw)

\* ------------------------------------------------------------ claims about token order

\* C18: the tokens tokenize returns are in strict input order, whatever the
\* options: of two consecutive tokens the first starts before the second
\* and ends at or before the start of the second.
C18_StrictInputOrder ==
    run.call = "tokenize" =>
        \A i \in 1..(Len(run.tokens) - 1) :
            /\ run.tokens[i].start < run.tokens[i + 1].start
            /\ run.tokens[i].start + run.tokens[i].len <= run.tokens[i + 1].start

\* ------------------------------------------------------------ claims about shared tries

\* C19: no step of a tokenize call changes the trie the tokenizers share,
\* and whatever the interleaving of the calls, each call returns the list
\* it returns when run alone on its text with its options and the trie.
C19_SharedTrieReadOnly ==
    [][/\ trie' = trie
       /\ \A c \in DOMAIN calls' :
              calls'[c].pc = "returned" =>
                  calls'[c].tokens =
                      tokenize_with_full_options(trie, calls'[c].text,
                                                 calls'[c].split_affixes,
                                                 calls'[c].spaces_as_punct)]_vars

\* Two calls on different texts were in progress at once and both returned.
C19_Witness ==
    /\ calls # <<>>
    /\ \A c \in DOMAIN calls : calls[c].pc = "returned"
    /\ calls[1].text # calls[2].text
    /\ calls[1].tokens # calls[2].tokens

\* ------------------------------------------------------------ claims about termination

\* What each step of the call owes: an iteration of make_chunks or of
\* tokenize_chunks moves its index forward, an iteration of merge_dagdra
\* shortens the list or moves its index forward, and nothing panics.
StepProgress ==
    /\ frame'.pc # "panicked"
    /\ (frame.pc = "make_chunks" /\ frame'.pc = "make_chunks") => frame'.i > frame.i
    /\ (frame.pc = "tokenize_chunks" /\ frame'.pc = "tokenize_chunks") =>
           frame'.i > frame.i
    /\ (frame.pc = "merge_dagdra_loop" /\ frame'.pc = "merge_dagdra_loop") =>
           \/ Len(frame'.tokens) < Len(frame.tokens)
           \/ frame'.i > frame.i

\* C20: for every text and trie, tokenize_with_full_options makes progress
\* at every iteration of its loops, never slices or subtracts out of range,
\* and returns.
C20_Terminates ==
    /\ [][StepProgress]_vars
    /\ <>(frame.pc = "returned")

\* A call returned after its loops split an affixed word, merged a dagdra or
\* passed over a pair it did not merge.
C20_Witness ==
    /\ frame.pc = "returned"
    /\ Len(frame.chunks) > 1
    /\ frame.tokens = tokenize_with_full_options(trie, text, frame.split_affixes,
                                                 frame.spaces_as_punct)
    /\ \E k \in 1..Len(frame.tokens) :
           frame.tokens[k].is_affix \/ frame.tokens[k].has_merged_dagdra


\* ------------------------------------------------------------ claims about syllable chunks

\* The index of the chunk whose byte range holds character i (0-based) of
\* the text s, or 0 when no chunk holds it.
ChunkOf(s, cs, i) ==
    LET at == BytePositions(s)[i]
        holds == {k \in 1..Len(cs) : cs[k].start <= at /\ at < cs[k].start + cs[k].len}
    IN IF holds = {} THEN 0 ELSE CHOOSE k \in holds : TRUE

\* Characters i < j of s (0-based) are syllable characters and all the
\* characters between them, at least one, are transparent.
AcrossTransparent(s, i, j) ==
    /\ i + 1 < j
    /\ is_syllable_part(get_char_category(s[i + 1]))
    /\ is_syllable_part(get_char_category(s[j + 1]))
    /\ \A m \in (i + 1)..(j - 1) : get_char_category(s[m + 1]) = "Transparent"

\* C21: two syllable characters with only transparent characters between
\* them, one or several, lie in the same Text chunk; the transparent
\* characters are within the chunk's byte range and never in its syl.
C21_TransparentRunInSyllable ==
    phase = "done" =>
        /\ \A i \in 0..(Len(text) - 1), j \in 0..(Len(text) - 1) :
               AcrossTransparent(text, i, j) =>
                   /\ ChunkOf(text, chunks, i) # 0
                   /\ ChunkOf(text, chunks, i) = ChunkOf(text, chunks, j)
                   /\ chunks[ChunkOf(text, chunks, i)].chunk_type = "Text"
        /\ \A k \in 1..Len(chunks) :
               IsSome(chunks[k].syl) =>
                   \A m \in 1..Len(Unwrap(chunks[k].syl)) :
                       get_char_category(Unwrap(chunks[k].syl)[m]) # "Transparent"


\* ------------------------------------------------------------ claims about the modifiers

\* The four conditions under which a token is split.
SplitConditions(tk) ==
    /\ tk.affixation # None
    /\ \A k \in 1..Len(tk.senses) : tk.senses[k].affixed
    /\ Len(tk.syls) >= 2
    /\ Len(tk.syls[Len(tk.syls)]) >= tk.affixation[1].len

\* host and particle are what the token tk splits into: the particle holds
\* the last len characters of the last syllable, the host the syllables
\* without them (a syllable left empty is not kept) and the linguistic
\* fields of tk.
SplitsInto(tk, host, particle) ==
    LET n == tk.affixation[1].len
        last_syl == tk.syls[Len(tk.syls)]
        kept == SubSeq(last_syl, 1, Len(last_syl) - n)
        front == SubSeq(tk.syls, 1, Len(tk.syls) - 1)
    IN /\ host.is_affix_host
       /\ host.pos = tk.pos /\ host.lemma = tk.lemma /\ host.freq = tk.freq
       /\ host.senses = tk.senses
       /\ host.syls = IF kept = <<>> THEN front ELSE Append(front, kept)
       /\ particle.syls = <<SubSeq(last_syl, Len(last_syl) - n + 1, Len(last_syl))>>
       /\ particle.pos = Some("PART")
       /\ particle.is_affix

RECURSIVE SplitAsClaimed(_, _)
\* The list `after` is the list `before` with every token that meets the
\* four conditions replaced by its host and particle and every other token
\* unchanged.
SplitAsClaimed(before, after) ==
    IF before = <<>> THEN after = <<>>
    ELSE IF SplitConditions(Head(before))
    THEN /\ Len(after) >= 2
         /\ SplitsInto(Head(before), after[1], after[2])
         /\ SplitAsClaimed(Tail(before), Tail(Tail(after)))
    ELSE /\ Len(after) >= 1
         /\ after[1] = Head(before)
         /\ SplitAsClaimed(Tail(before), Tail(after))

\* C22: split_affixed splits a token into host and particle exactly when
\* its affixation is present, no sense has affixed = false, it has at least
\* two syllables and its last syllable has at least affixation.len
\* characters; every other token is unchanged; the host and the particle
\* have the fields the split gives them.
C22_SplitAffixed ==
    run.call = "split_affixed" => SplitAsClaimed(run.spaced, run.tokens)

\* A list with a token that was split next to tokens that were not: a
\* single-syllable affixed word and a word with a sense that is not affixed.
C22_Witness ==
    /\ run.call = "split_affixed"
    /\ Len(run.spaced) = 3
    /\ Len(run.tokens) = 4
    /\ Len(run.spaced[1].syls) = 1 /\ run.spaced[1].affixation # None
    /\ run.tokens[3].is_affix
    /\ \E k \in 1..Len(run.spaced[3].senses) : ~run.spaced[3].senses[k].affixed


\* The token at index k of a list (k >= 2) is one that merge_dagdra joins to
\* what precedes it: both are Text and its cleaned text is a dagdra.
JoinsPrevious(ts, k) ==
    /\ ts[k - 1].chunk_type = "Text"
    /\ ts[k].chunk_type = "Text"
    /\ is_dagdra(text_cleaned(ts[k]))

RECURSIVE DagdraGroups(_, _, _)
\* The tokens of a list in groups (sequences of indices): a token that joins
\* the previous one is in its group, every other token starts a group.
DagdraGroups(ts, k, groups) ==
    IF k > Len(ts) THEN groups
    ELSE IF k >= 2 /\ JoinsPrevious(ts, k)
    THEN DagdraGroups(ts, k + 1,
             [groups EXCEPT ![Len(groups)] = Append(@, k)])
    ELSE DagdraGroups(ts, k + 1, Append(groups, <<k>>))

RECURSIVE GroupText(_, _)
GroupText(ts, g) == IF g = <<>> THEN <<>> ELSE ts[Head(g)].text \o GroupText(ts, Tail(g))

RECURSIVE GroupLen(_, _)
GroupLen(ts, g) == IF g = <<>> THEN 0 ELSE ts[Head(g)].len + GroupLen(ts, Tail(g))

RECURSIVE GroupSyls(_, _)
GroupSyls(ts, g) == IF g = <<>> THEN <<>> ELSE ts[Head(g)].syls \o GroupSyls(ts, Tail(g))

\* The token tk is the group g of the list ts merged as described.
MergedAs(ts, g, tk) ==
    IF Len(g) = 1 THEN tk = ts[g[1]]
    ELSE /\ tk.text = GroupText(ts, g)
         /\ tk.start = ts[g[1]].start
         /\ tk.len = GroupLen(ts, g)
         /\ tk.syls = GroupSyls(ts, g)
         /\ tk.pos = ts[g[1]].pos
         /\ tk.freq = ts[g[1]].freq
         /\ tk.has_merged_dagdra
         /\ tk.lemma = Some(text_cleaned(tk))
         /\ \A m \in 1..Len(g) : ts[g[m]].chunk_type = "Text"

\* C23: merge_dagdra merges an adjacent pair of Text tokens exactly when the
\* second token's cleaned text is a dagdra; the merged token has the two
\* texts and syllable lists concatenated, the start, pos and freq of the
\* first, the sum of the lengths, has_merged_dagdra set and its own cleaned
\* text as lemma; the total byte length and the syllable sequence are
\* conserved, and no token that is not Text is merged.
C23_MergeDagdra ==
    run.call = "merge_dagdra" =>
        LET before == run.spaced
            after == run.tokens
            groups == DagdraGroups(before, 1, <<>>)
            all == [k \in 1..Len(before) |-> k]
            out == [k \in 1..Len(after) |-> k]
        IN /\ Len(after) = Len(groups)
           /\ \A n \in 1..Len(groups) : MergedAs(before, groups[n], after[n])
           /\ GroupLen(after, out) = GroupLen(before, all)
           /\ GroupSyls(after, out) = GroupSyls(before, all)

\* A noun followed by a dagdra with another pos was merged, next to a
\* punctuation token followed by a dagdra, which was not.
C23_Witness ==
    /\ run.call = "merge_dagdra"
    /\ Len(run.spaced) = 4 /\ Len(run.tokens) = 3
    /\ run.spaced[1].pos = Some("NOUN") /\ run.spaced[2].pos = Some("PART")
    /\ run.tokens[1].has_merged_dagdra /\ run.tokens[1].pos = Some("NOUN")
    /\ run.spaced[3].chunk_type = "Punct"
    /\ is_dagdra(text_cleaned(run.spaced[4]))


\* The lemma the token tk is given when it has none.
DefaultLemma(tk) ==
    IF tk.is_affix_host /\ ~tk.is_affix
    THEN JoinSyls(tk.syls, <<TSEK>>)
    ELSE Append(JoinSyls(tk.syls, <<TSEK>>), TSEK)

\* C25: after generate_default_lemmas every token with syllables has a
\* lemma: a lemma that was present is unchanged, an absent one is the
\* syllables joined by tsek with a closing tsek, which a token that is an
\* affix host and not an affix does not get; a token without syllables
\* keeps its absent lemma, and nothing else of a token changes.
C25_DefaultLemmas ==
    run.call = "generate_default_lemmas" =>
        /\ Len(run.tokens) = Len(run.spaced)
        /\ \A k \in 1..Len(run.spaced) :
               LET old == run.spaced[k]
                   new == run.tokens[k]
               IN /\ [new EXCEPT !.lemma = None] = [old EXCEPT !.lemma = None]
                  /\ new.lemma = IF old.lemma # None \/ old.syls = <<>>
                                 THEN old.lemma
                                 ELSE <<DefaultLemma(old)>>
                  /\ old.syls # <<>> => new.lemma # None

\* A list with an affix host, a token that is host and affix both, a noun
\* that has a lemma and a token without syllables.
C25_Witness ==
    /\ run.call = "generate_default_lemmas"
    /\ Len(run.spaced) = 4
    /\ run.spaced[1].is_affix_host /\ ~run.spaced[1].is_affix
    /\ run.tokens[1].lemma = <<<<"k", TSEK, "k">>>>
    /\ run.spaced[2].is_affix_host /\ run.spaced[2].is_affix
    /\ run.spaced[3].lemma # None
    /\ run.spaced[4].syls = <<>> /\ run.tokens[4].lemma = None

\* ------------------------------------------------------------ claims about the order of the passes

\* The passes follow one another in the order split_affixed (only when
\* split_affixes is set), merge_dagdra, generate_default_lemmas,
\* choose_default_senses, and generate_default_lemmas changes lemmas only.
PassOrder ==
    /\ frame.pc = "split_spaces" =>
           frame'.pc = IF frame.split_affixes THEN "split_affixed" ELSE "merge_dagdra"
    /\ frame.pc = "split_affixed" => frame'.pc \in {"split_affixed", "merge_dagdra"}
    /\ frame.pc \in {"merge_dagdra", "merge_dagdra_loop"} =>
           frame'.pc \in {"merge_dagdra_loop", "default_lemmas"}
    /\ frame.pc = "default_lemmas" =>
           /\ frame'.pc = "default_senses"
           /\ Len(frame'.tokens) = Len(frame.tokens)
           /\ \A k \in 1..Len(frame.tokens) :
                  [frame'.tokens[k] EXCEPT !.lemma = None] =
                  [frame.tokens[k] EXCEPT !.lemma = None]
    /\ frame.pc = "default_senses" => frame'.pc = "returned"

\* While merge_dagdra scans, no token is left that split_affixed splits.
HostsAreSplit ==
    (frame.split_affixes /\ frame.pc \in {"merge_dagdra", "merge_dagdra_loop"}) =>
        \A k \in 1..Len(frame.tokens) : ~SplitConditions(frame.tokens[k])

\* Without split_affixes the split pass is never entered and no token is an
\* affix or an affix host.
NoSplitWithoutOption ==
    (frame.pc # "idle" /\ ~frame.split_affixes) =>
        /\ frame.pc # "split_affixed"
        /\ \A k \in 1..Len(frame.tokens) :
               ~frame.tokens[k].is_affix /\ ~frame.tokens[k].is_affix_host

\* C24: apply_all_modifiers runs split_affixed, merge_dagdra,
\* generate_default_lemmas and choose_default_senses in that order, so that
\* merge_dagdra scans a list whose affixed words are already split; with
\* split_affixes = false the split pass is skipped, no token of the result
\* is an affix or an affix host, and the other three passes still run.
C24_PassOrder ==
    /\ [][PassOrder]_vars
    /\ [](HostsAreSplit /\ NoSplitWithoutOption)
    /\ (frame.pc = "split_spaces") ~> (frame.pc = "returned")

\* merge_dagdra scans a list in which a host is followed by its particle.
C24_Witness ==
    /\ frame.pc = "merge_dagdra_loop"
    /\ frame.split_affixes
    /\ frame.i > 0
    /\ \E k \in 1..(Len(frame.tokens) - 1) :
           /\ frame.tokens[k].is_affix_host
           /\ frame.tokens[k + 1].is_affix


\* ------------------------------------------------------------ claims about syllables

\* C26: get_all_affixed(s) is absent when s is not affixable; otherwise it
\* has 11 pairs, one for each entry of the affix table, each made of the
\* base followed by the particle and of the entry's len and type with aa,
\* where s ending in achung with more than one character gives the base
\* without that achung and aa = true, and any other s gives base = s and
\* aa = false; the 11 forms are pairwise different and every len is the
\* number of characters of its particle.
C26_GetAllAffixed ==
    run.call = "get_all_affixed" =>
        LET s == text
            roots == builder.syl_components
            drops == Len(s) > 1 /\ s[Len(s)] = AA
            base == IF drops THEN SubSeq(s, 1, Len(s) - 1) ELSE s
        IN IF ~is_affixable(roots, s) THEN run.tokens = None
           ELSE /\ run.tokens # None
                /\ LET forms == run.tokens[1] IN
                   /\ Len(forms) = 11
                   /\ \A e \in 1..Len(AFFIXES) : \E k \in 1..Len(forms) :
                          /\ forms[k][1] = base \o AFFIXES[e].affix
                          /\ forms[k][2] = [len |-> AFFIXES[e].len,
                                            affix_type |-> AFFIXES[e].affix_type,
                                            aa |-> drops]
                   /\ \A k, m \in 1..Len(forms) : k # m => forms[k][1] # forms[m][1]
                   /\ \A k \in 1..Len(forms) :
                          forms[k][2].len = Len(forms[k][1]) - Len(base)

\* The forms of a syllable of several characters that ends in achung.
C26_Witness ==
    /\ run.call = "get_all_affixed"
    /\ text = <<"k", AA>>
    /\ run.tokens # None
    /\ \E k \in 1..Len(run.tokens[1]) :
           run.tokens[1][k] = <<<<"k", AA, "i">>, AffixData(2, "gi", TRUE)>>

\* C27: is_thame(s) is true exactly when s is a known root, or the last 1 to
\* 4 characters of s are an affixable suffix, or s ends in achung and has
\* more than one character; a syllable that is nothing but one affixable
\* suffix is thame.
C27_IsThame ==
    run.call = "is_thame" =>
        LET s == text
            roots == builder.syl_components
        IN run.tokens[1] <=>
               \/ s \in roots
               \/ \E n \in 1..4 : n <= Len(s) /\
                      SubSeq(s, Len(s) - n + 1, Len(s)) \in AFFIXABLE_SUFFIXES
               \/ Len(s) > 1 /\ s[Len(s)] = AA


\* ------------------------------------------------------------ claims about character categories

\* The characters of the model that the transparent table is said to hold:
\* space, tab, NBSP and U+3000.
SaidTransparent == {"sp", "tab", "nbsp", "ideo"}

\* C28: get_char_category looks at the transparent table first, then at the
\* Tibetan block, then at the Latin and CJK ranges, and returns Transparent
\* exactly for space, tab, CR, LF, NBSP, U+2000..U+200B, U+202F, U+205F,
\* U+3000 and U+FEFF, and for no other code point.
C28_TransparentTable ==
    run.call = "BoString::new" =>
        \A k \in 1..Len(text) :
            run.tokens[k] = "Transparent" <=> text[k] \in SaidTransparent


\* ------------------------------------------------------------ claims about sentences

\* C29: for every non-empty token list the ranges (start_idx, end_idx) of
\* the sentences that sentence_tokenize returns are non-empty, increasing,
\* pairwise disjoint and contiguous, and cover every token index exactly
\* once; each sentence holds the tokens of its range.
C29_SentencesPartition ==
    (run.call = "sentence_tokenize" /\ run.spaced # <<>>) =>
        LET n == Len(run.spaced)
            ss == run.tokens
        IN /\ Len(ss) >= 1
           /\ ss[1].start_idx = 0
           /\ ss[Len(ss)].end_idx = n - 1
           /\ \A k \in 1..Len(ss) :
                  /\ ss[k].start_idx <= ss[k].end_idx
                  /\ ss[k].tokens = SubSeq(run.spaced, ss[k].start_idx + 1,
                                           ss[k].end_idx + 1)
           /\ \A k \in 1..(Len(ss) - 1) : ss[k + 1].start_idx = ss[k].end_idx + 1

\* A list with a segment longer than the threshold that was split at a verb
\* before a clause boundary.
C29_Witness ==
    /\ run.call = "sentence_tokenize"
    /\ Len(run.spaced) = LongRun + 4
    /\ Len(run.tokens) = 2
    /\ run.tokens[1].end_idx = LongRun + 1
    /\ run.tokens[1].end_idx - run.tokens[1].start_idx > 30
    /\ has_last_syl(run.spaced[LongRun + 2], CLAUSE_BOUNDARIES)
====
